---- MODULE Spec2Model ----
(***************************************************************************)
(* A model of the WALT cpufreq governor, kernel/sched/walt/cpufreq_walt.c. *)
(*                                                                         *)
(* One frequency domain (struct waltgov_policy) with its CPUs, its tunable *)
(* set and its cpufreq policy.  The build modelled is the one without      *)
(* CONFIG_OPLUS_FEATURE_SUGOV_TL (get_next_freq maps utilization through   *)
(* walt_map_util_freq and the adaptive band); CONFIG_OPLUS_FEATURE_        *)
(* FRAME_BOOST is a build choice fixed in the initial state                *)
(* (config.frame_boost).  Times are nanoseconds, frequencies kHz, as in    *)
(* the source.                                                             *)
(***************************************************************************)
EXTENDS Integers, Sequences, FiniteSets, TLC

VARIABLES
    now,        \* walt_sched_clock(), ns
    gov,        \* lifecycle of the domain: "initialized", "started", "stopped"
    config,     \* build and sysctl configuration, fixed after Init
    tunables,   \* struct waltgov_tunables
    wg_policy,  \* struct waltgov_policy
    wg_cpu,     \* per-CPU struct waltgov_cpu of the domain's CPUs
    policy,     \* struct cpufreq_policy (cur, min, max, table, ...)
    work,       \* deferred path: is the irq work / kthread work queued
    last,       \* what the last operation was and what it did (trace output)
    hist,       \* history kept for the properties (never read by the code)
    stores,     \* number of tunable / API writes made so far (bounded)
    ops,        \* number of operations run so far (bounded)
    life,       \* what exists around the domain: policy->governor_data, the
                \* kthread, the sysfs object, per-CPU callbacks and pointers,
                \* the per-CPU cached_tunables
    pc,         \* where each thread of control stands inside its handler,
                \* with the handler's local variables
    locks       \* the owner of update_lock, work_lock, min_rate_lock and of
                \* each CPU's rq->__lock ("none": free)

vars == <<now, gov, config, tunables, wg_policy, wg_cpu, policy, work, last,
          hist, stores, ops, life, pc, locks>>

(***************************************************************************)
(* Program constants.                                                      *)
(***************************************************************************)
NSEC_PER_SEC == 1000000000
NSEC_PER_USEC == 1000
KHZ == 1000
TARGET_LOAD == 80
NL_RATIO == 75
DEFAULT_HISPEED_LOAD == 90
DEFAULT_TARGET_LOAD_THRESH == 1024
DEFAULT_TARGET_LOAD_SHIFT == 4
\* The scheduler's window length (a variable of walt.c, 4 ms here).
sched_ravg_window == 4000000

\* Event flags of the update callback and reason codes, as symbolic bits.
WALT_CPUFREQ_CONTINUE == "CONTINUE"
WALT_CPUFREQ_IC_MIGRATION == "IC_MIGRATION"
WALT_CPUFREQ_PL == "PL"
WALT_CPUFREQ_BOOST_UPDATE == "BOOST_UPDATE"
SCHED_CPUFREQ_DEF_FRAMEBOOST == "DEF_FRAMEBOOST"

CPUFREQ_REASON_EARLY_DET == "EARLY_DET"
CPUFREQ_REASON_RTG_BOOST == "RTG_BOOST"
CPUFREQ_REASON_HISPEED == "HISPEED"
CPUFREQ_REASON_NWD == "NWD"
CPUFREQ_REASON_PL == "PL"
CPUFREQ_REASON_BTR == "BTR"
CPUFREQ_REASON_ADAPTIVE_LOW == "ADAPTIVE_LOW"
CPUFREQ_REASON_ADAPTIVE_HIGH == "ADAPTIVE_HIGH"

\* The CPUs of the one domain (policy->cpus).
Cpus == {0, 1}

(***************************************************************************)
(* Arithmetic helpers of the kernel.                                       *)
(***************************************************************************)
Min(a, b) == IF a <= b THEN a ELSE b
Max(a, b) == IF a >= b THEN a ELSE b

\* include/linux/math.h: quot * numer + rem * numer / denom.
mult_frac(x, numer, denom) ==
    LET quot == x \div denom
        rem == x % denom
    IN  (quot * numer) + ((rem * numer) \div denom)

\* x >> n for the small shifts the governor uses.
RECURSIVE shr(_, _)
shr(x, n) == IF n = 0 THEN x ELSE shr(x \div 2, n - 1)

(***************************************************************************)
(* cpufreq core, as the governor sees it.                                  *)
(***************************************************************************)
\* cpufreq_driver_resolve_freq: clamp to the policy limits, then the lowest
\* table frequency at or above the target (the highest one if none is).
cpufreq_driver_resolve_freq(pol, target_freq) ==
    LET lowest(above) ==
            IF above # {}
            THEN CHOOSE f \in above : \A g \in above : f <= g
            ELSE CHOOSE f \in pol.freq_table :
                     \A g \in pol.freq_table : g <= f
        clamped(t) == lowest({f \in pol.freq_table : f >= t})
    IN  clamped(Max(pol.min, Min(pol.max, target_freq)))

\* cpufreq_policy_apply_limits: bring policy->cur back inside [min, max].
cpufreq_policy_apply_limits(pol) ==
    IF pol.max < pol.cur
    THEN [pol EXCEPT !.cur = cpufreq_driver_resolve_freq(pol, pol.max)]
    ELSE IF pol.min > pol.cur
    THEN [pol EXCEPT !.cur = cpufreq_driver_resolve_freq(pol, pol.min)]
    ELSE pol

(***************************************************************************)
(* Governor internals.                                                     *)
(***************************************************************************)
\* Variant of waltgov_should_update_freq that always asks for a recompute.
waltgov_should_update_freq_always(p, time) ==
    IF p.limits_changed
    THEN [ret |-> TRUE,
          p |-> [p EXCEPT !.limits_changed = FALSE, !.need_freq_update = TRUE]]
    ELSE [ret |-> TRUE, p |-> p]

\* Returns whether to recompute, and the domain with the flags consumed.
waltgov_should_update_freq(p, time) ==
    IF p.limits_changed
    THEN [ret |-> TRUE,
          p |-> [p EXCEPT !.limits_changed = FALSE, !.need_freq_update = TRUE]]
    ELSE IF config.frame_boost /\ SCHED_CPUFREQ_DEF_FRAMEBOOST \in p.flags
    THEN [ret |-> TRUE, p |-> p]
    ELSE [ret |-> (time - p.last_freq_update_time >= p.min_rate_limit_ns),
          p |-> p]

\* Variant of waltgov_up_down_rate_limit that limits raises only.
waltgov_up_down_rate_limit_up_only(p, time, next_freq) ==
    LET delta_ns == time - p.last_freq_update_time
    IN  IF config.frame_boost /\ SCHED_CPUFREQ_DEF_FRAMEBOOST \in p.flags
        THEN FALSE
        ELSE next_freq > p.next_freq /\ delta_ns < p.up_rate_delay_ns

waltgov_up_down_rate_limit(p, time, next_freq) ==
    LET delta_ns == time - p.last_freq_update_time
    IN  IF config.frame_boost /\ SCHED_CPUFREQ_DEF_FRAMEBOOST \in p.flags
        THEN FALSE
        ELSE IF next_freq > p.next_freq /\ delta_ns < p.up_rate_delay_ns
        THEN TRUE
        ELSE IF next_freq < p.next_freq /\ delta_ns < p.down_rate_delay_ns
        THEN TRUE
        ELSE FALSE

\* Variant of waltgov_update_next_freq without the equal-frequency return.
waltgov_update_next_freq_always(p, time, next_freq, raw_freq) ==
    IF waltgov_up_down_rate_limit(p, time, next_freq)
    THEN [ret |-> FALSE, p |-> [p EXCEPT !.cached_raw_freq = 0]]
    ELSE [ret |-> TRUE,
          p |-> [p EXCEPT !.cached_raw_freq = raw_freq,
                          !.next_freq = next_freq,
                          !.last_freq_update_time = time]]

\* Variant of waltgov_update_next_freq that keeps cached_raw_freq when the
\* rate limit rejects the frequency.
waltgov_update_next_freq_keep_cache(p, time, next_freq, raw_freq) ==
    IF p.next_freq = next_freq \/ waltgov_up_down_rate_limit(p, time, next_freq)
    THEN [ret |-> FALSE, p |-> p]
    ELSE [ret |-> TRUE,
          p |-> [p EXCEPT !.cached_raw_freq = raw_freq,
                          !.next_freq = next_freq,
                          !.last_freq_update_time = time]]

\* Variant of waltgov_update_next_freq without the rate-limit check.
waltgov_update_next_freq_unchecked(p, time, next_freq, raw_freq) ==
    IF p.next_freq = next_freq
    THEN [ret |-> FALSE, p |-> p]
    ELSE [ret |-> TRUE,
          p |-> [p EXCEPT !.cached_raw_freq = raw_freq,
                          !.next_freq = next_freq,
                          !.last_freq_update_time = time]]

waltgov_update_next_freq(p, time, next_freq, raw_freq) ==
    IF p.next_freq = next_freq
    THEN [ret |-> FALSE, p |-> p]
    ELSE IF waltgov_up_down_rate_limit(p, time, next_freq)
    THEN [ret |-> FALSE, p |-> [p EXCEPT !.cached_raw_freq = 0]]
    ELSE [ret |-> TRUE,
          p |-> [p EXCEPT !.cached_raw_freq = raw_freq,
                          !.next_freq = next_freq,
                          !.last_freq_update_time = time]]

freq_to_util(p, pol, freq) == mult_frac(p.max, freq, pol.cpuinfo_max_freq)

\* Variant of waltgov_track_cycles that does not clamp upto to the end of
\* the window.
waltgov_track_cycles_unclamped(p, prev_freq, upto) ==
    LET cycles(delta_ns) == (delta_ns * prev_freq) \div (NSEC_PER_SEC \div KHZ)
        tracked(up, delta_ns) ==
            IF delta_ns < 0
            THEN [p EXCEPT !.cyc_wrapped = TRUE, !.last_cyc_update_time = up]
            ELSE [p EXCEPT !.curr_cycles = @ + cycles(delta_ns),
                           !.last_cyc_update_time = up]
        clipped(up) == tracked(up, up - p.last_cyc_update_time)
    IN  clipped(upto)

\* Variant of waltgov_track_cycles that stores the cycles of the call instead
\* of adding them.
waltgov_track_cycles_overwrite(p, prev_freq, upto) ==
    LET next_ws == p.last_ws + sched_ravg_window
        cycles(delta_ns) == (delta_ns * prev_freq) \div (NSEC_PER_SEC \div KHZ)
        tracked(up, delta_ns) ==
            IF delta_ns < 0
            THEN [p EXCEPT !.cyc_wrapped = TRUE, !.last_cyc_update_time = up]
            ELSE [p EXCEPT !.curr_cycles = cycles(delta_ns),
                           !.last_cyc_update_time = up]
        clipped(up) == tracked(up, up - p.last_cyc_update_time)
    IN  clipped(Min(upto, next_ws))

\* delta_ns is a u64: a timestamp behind last_cyc_update_time wraps, and the
\* huge product is recorded as cyc_wrapped instead of being computed.
waltgov_track_cycles(p, prev_freq, upto) ==
    LET next_ws == p.last_ws + sched_ravg_window
        cycles(delta_ns) == (delta_ns * prev_freq) \div (NSEC_PER_SEC \div KHZ)
        tracked(up, delta_ns) ==
            IF delta_ns < 0
            THEN [p EXCEPT !.cyc_wrapped = TRUE, !.last_cyc_update_time = up]
            ELSE [p EXCEPT !.curr_cycles = @ + cycles(delta_ns),
                           !.last_cyc_update_time = up]
        clipped(up) == tracked(up, up - p.last_cyc_update_time)
    IN  clipped(Min(upto, next_ws))

\* Variant of waltgov_calc_avg_cap that discards the cycles already when
\* exactly one window has passed.
waltgov_calc_avg_cap_skip_at_one(p, pol, curr_ws, prev_freq) ==
    IF curr_ws < p.last_ws
    THEN [p EXCEPT !.bug = TRUE]
    ELSE IF curr_ws <= p.last_ws
    THEN p
    ELSE IF curr_ws >= p.last_ws + sched_ravg_window
    THEN [p EXCEPT !.last_cyc_update_time = curr_ws,
                   !.avg_cap = freq_to_util(p, pol, prev_freq),
                   !.curr_cycles = 0,
                   !.last_ws = curr_ws]
    ELSE LET avg_freq(q) ==
                 q.curr_cycles
                     \div (sched_ravg_window \div (NSEC_PER_SEC \div KHZ))
             rolled(q) == [q EXCEPT !.avg_cap = freq_to_util(q, pol, avg_freq(q)),
                                    !.curr_cycles = 0,
                                    !.last_ws = curr_ws]
         IN  rolled(waltgov_track_cycles(p, prev_freq, curr_ws))

\* Variant of waltgov_calc_avg_cap without the return for a window start
\* equal to last_ws.
waltgov_calc_avg_cap_no_return(p, pol, curr_ws, prev_freq) ==
    IF curr_ws < p.last_ws
    THEN [p EXCEPT !.bug = TRUE]
    ELSE IF curr_ws > p.last_ws + sched_ravg_window
    THEN [p EXCEPT !.last_cyc_update_time = curr_ws,
                   !.avg_cap = freq_to_util(p, pol, prev_freq),
                   !.curr_cycles = 0,
                   !.last_ws = curr_ws]
    ELSE LET avg_freq(q) ==
                 q.curr_cycles
                     \div (sched_ravg_window \div (NSEC_PER_SEC \div KHZ))
             rolled(q) == [q EXCEPT !.avg_cap = freq_to_util(q, pol, avg_freq(q)),
                                    !.curr_cycles = 0,
                                    !.last_ws = curr_ws]
         IN  rolled(waltgov_track_cycles(p, prev_freq, curr_ws))

\* BUG_ON(curr_ws < last_ws) is recorded as p.bug: the kernel stops there.
waltgov_calc_avg_cap(p, pol, curr_ws, prev_freq) ==
    IF curr_ws < p.last_ws
    THEN [p EXCEPT !.bug = TRUE]
    ELSE IF curr_ws <= p.last_ws
    THEN p
    ELSE IF curr_ws > p.last_ws + sched_ravg_window
    THEN [p EXCEPT !.last_cyc_update_time = curr_ws,
                   !.avg_cap = freq_to_util(p, pol, prev_freq),
                   !.curr_cycles = 0,
                   !.last_ws = curr_ws]
    ELSE LET avg_freq(q) ==
                 q.curr_cycles
                     \div (sched_ravg_window \div (NSEC_PER_SEC \div KHZ))
             rolled(q) == [q EXCEPT !.avg_cap = freq_to_util(q, pol, avg_freq(q)),
                                    !.curr_cycles = 0,
                                    !.last_ws = curr_ws]
         IN  rolled(waltgov_track_cycles(p, prev_freq, curr_ws))

\* Variant of walt_map_util_freq with the 1.25x headroom for every
\* utilization.
walt_map_util_freq_linear(util, pol, tun, cap, rt) ==
    IF cap = 0 THEN 0
    ELSE ((pol.cpuinfo_max_freq + shr(pol.cpuinfo_max_freq, 2)) * util)
             \div cap

\* (fmax + fmax/4) * util / cap, or the steeper curve above target_load_thresh
\* when the CPU's rt utilization (rt, read from its runqueue) is low.  cap is 0
\* when the aggregation ended on a CPU slot that start zeroed and no callback
\* has filled yet: the division by zero is undefined behaviour, which either
\* yields 0 (arm64 udiv) or traps (config.div0_traps, see get_next_freq).
walt_map_util_freq(util, pol, tun, cap, rt) ==
    LET fmax == pol.cpuinfo_max_freq
        shift == tun.target_load_shift
    IN  IF cap = 0
        THEN 0
        ELSE IF util >= tun.target_load_thresh /\ rt < shr(cap, 2)
        THEN Max((fmax + shr(fmax, shift)) * util,
                 (fmax + shr(fmax, 2)) * tun.target_load_thresh) \div cap
        ELSE ((fmax + shr(fmax, 2)) * util) \div cap

get_adaptive_low_freq(tun) ==
    Max(tun.adaptive_low_freq, tun.adaptive_low_freq_kernel)

get_adaptive_high_freq(tun) ==
    Max(tun.adaptive_high_freq, tun.adaptive_high_freq_kernel)

\* The selector.  util/max is the aggregated pair, rt the rt utilization of
\* the driving CPU's runqueue.  Returns the frequency to apply (0: none), the
\* domain, the CPU slots (reasons of the driving CPU) and, as trace output,
\* raw_freq, the frequency after the adaptive band and whether it resolved.
\* Variant of next_freq_unchanged that does not look at need_freq_update.
next_freq_unchanged_any_flag(p, freq) ==
    p.cached_raw_freq # 0 /\ freq = p.cached_raw_freq

\* The test before the resolution: wg_policy->cached_raw_freq &&
\* freq == wg_policy->cached_raw_freq && !wg_policy->need_freq_update.
next_freq_unchanged(p, freq) ==
    p.cached_raw_freq # 0 /\ freq = p.cached_raw_freq /\ ~p.need_freq_update

get_next_freq(p, tun, pol, cpus, util, max, time, rt) ==
    LET d == p.driving_cpu
        low == get_adaptive_low_freq(tun)
        high == get_adaptive_high_freq(tun)
        band == tun.adaptive_high_freq # 0
        banded(raw) == IF band /\ raw < low THEN low
                       ELSE IF band /\ raw <= high THEN high
                       ELSE raw
        reasoned(raw) ==
            IF band /\ raw < low
            THEN [cpus EXCEPT ![d].reasons = {CPUFREQ_REASON_ADAPTIVE_LOW}]
            ELSE IF band /\ raw <= high
            THEN [cpus EXCEPT ![d].reasons = {CPUFREQ_REASON_ADAPTIVE_HIGH}]
            ELSE cpus
        updated(u, final_freq, raw, freq, cp) ==
            [ret |-> IF u.ret THEN final_freq ELSE 0, p |-> u.p, cpus |-> cp,
             raw_freq |-> raw, freq |-> freq, resolved |-> TRUE]
        resolved(final_freq, raw, freq, cp) ==
            updated(waltgov_update_next_freq(
                        [p EXCEPT !.need_freq_update = FALSE], time,
                        final_freq, freq),
                    final_freq, raw, freq, cp)
        selected(raw, freq, cp) ==
            IF max = 0 /\ config.div0_traps
            THEN [ret |-> 0, p |-> [p EXCEPT !.bug = TRUE], cpus |-> cpus,
                  raw_freq |-> 0, freq |-> 0, resolved |-> FALSE]
            ELSE IF next_freq_unchanged(p, freq)
            THEN [ret |-> 0, p |-> p, cpus |-> cp, raw_freq |-> raw,
                  freq |-> freq, resolved |-> FALSE]
            ELSE resolved(cpufreq_driver_resolve_freq(pol, freq), raw, freq,
                          cp)
        mapped(raw) == selected(raw, banded(raw), reasoned(raw))
    IN  mapped(walt_map_util_freq(util, pol, tun, max, rt))

\* Variant of max_and_reason that lets a candidate win only when it is
\* strictly above the running utilization.
max_and_reason_strict(a, boost_util, j, reason) ==
    IF boost_util # 0 /\ boost_util > a.util
    THEN [a EXCEPT !.util = boost_util,
                   !.reasons[j] = {reason},
                   !.driving_cpu = j]
    ELSE a

\* Variant of max_and_reason that adds the reason to those recorded.
max_and_reason_or(a, boost_util, j, reason) ==
    IF boost_util # 0 /\ boost_util >= a.util
    THEN [a EXCEPT !.util = boost_util,
                   !.reasons[j] = @ \cup {reason},
                   !.driving_cpu = j]
    ELSE a

\* Variant of max_and_reason that replaces the utilization whatever it is.
max_and_reason_always(a, boost_util, j, reason) ==
    [a EXCEPT !.util = boost_util,
              !.reasons[j] = {reason},
              !.driving_cpu = j]

\* The running aggregate a: util, max, driving_cpu, the reasons of each CPU,
\* newtask_flag, and tr, the trace of what each CPU's pass computed.
max_and_reason(a, boost_util, j, reason) ==
    IF boost_util # 0 /\ boost_util >= a.util
    THEN [a EXCEPT !.util = boost_util,
                   !.reasons[j] = {reason},
                   !.driving_cpu = j]
    ELSE a

\* Variant of newtask_applies that spares a CPU mid-migration, as the
\* hispeed rule does.
newtask_applies_unless_migration(is_hiload, is_migration, nl, cpu_util) ==
    is_hiload /\ ~is_migration /\ nl >= mult_frac(cpu_util, NL_RATIO, 100)

\* The condition of the new-task wakeup rule:
\* is_hiload && nl >= mult_frac(cpu_util, NL_RATIO, 100).
newtask_applies(is_hiload, is_migration, nl, cpu_util) ==
    is_hiload /\ nl >= mult_frac(cpu_util, NL_RATIO, 100)

waltgov_walt_adjust(a, j, wcpu, p, tun, cpu_util_in, nl) ==
    LET is_migration == WALT_CPUFREQ_IC_MIGRATION \in wcpu.flags
        is_rtg_boost == wcpu.walt_load.rtgb_active
        big_task_rotation == wcpu.walt_load.big_task_rotation
        employ_ed_boost == wcpu.walt_load.ed_active /\ config.ed_boost_pct # 0
        cpu_util == IF employ_ed_boost
                    THEN mult_frac(cpu_util_in, 100 + config.ed_boost_pct, 100)
                    ELSE cpu_util_in
        is_hiload == cpu_util >= mult_frac(p.avg_cap, tun.hispeed_load, 100)
        nwd == newtask_applies(is_hiload, is_migration, nl, cpu_util)
        pl == IF config.conservative_pl
              THEN mult_frac(wcpu.walt_load.pl, TARGET_LOAD, 100)
              ELSE wcpu.walt_load.pl
        ed(x) == IF employ_ed_boost
                 THEN max_and_reason(x, cpu_util, j, CPUFREQ_REASON_EARLY_DET)
                 ELSE x
        rtg(x) == IF is_rtg_boost
                  THEN max_and_reason(x, p.rtg_boost_util, j,
                                      CPUFREQ_REASON_RTG_BOOST)
                  ELSE x
        hispeed(x) == IF is_hiload /\ ~is_migration
                      THEN max_and_reason(x, p.hispeed_util, j,
                                          CPUFREQ_REASON_HISPEED)
                      ELSE x
        newtask(x) == IF nwd
                      THEN [max_and_reason(x, x.max, j, CPUFREQ_REASON_NWD)
                                EXCEPT !.newtask_flag = 1]
                      ELSE [x EXCEPT !.newtask_flag = 0]
        predicted(x) == IF tun.pl
                        THEN max_and_reason(x, pl, j, CPUFREQ_REASON_PL)
                        ELSE x
        ed_reason(x) ==
            IF employ_ed_boost
            THEN [x EXCEPT !.reasons[j] = @ \cup {CPUFREQ_REASON_EARLY_DET}]
            ELSE x
        btr(x) == IF big_task_rotation
                  THEN max_and_reason(x, x.max, j, CPUFREQ_REASON_BTR)
                  ELSE x
        traced(x) == [x EXCEPT !.tr[j] = [@ EXCEPT
                                            !.is_hiload = is_hiload,
                                            !.hispeed = is_hiload /\ ~is_migration,
                                            !.nwd = nwd,
                                            !.util_in = a.util,
                                            !.max_in = a.max,
                                            !.util_out = x.util]]
    IN  traced(btr(ed_reason(predicted(newtask(hispeed(rtg(ed(a))))))))

target_util(p, tun, pol, freq) ==
    LET reduced(util) == IF pol.is_min_cluster /\ util >= tun.target_load_thresh
                         THEN mult_frac(util, 94, 100)
                         ELSE mult_frac(util, TARGET_LOAD, 100)
    IN  reduced(freq_to_util(p, pol, freq))

\* Variant of next_freq_shared_cpu that leaves the new-task load unscaled.
next_freq_shared_cpu_nl_unscaled(a, j, p, tun, cpus) ==
    LET boost == tun.boost
        j_util == IF boost # 0
                  THEN mult_frac(cpus[j].util, boost + 100, 100)
                  ELSE cpus[j].util
        j_nl == cpus[j].walt_load.nl
        j_max == cpus[j].max
        driving(x) == IF j_util * x.max >= j_max * x.util
                      THEN [x EXCEPT !.util = j_util, !.max = j_max,
                                     !.driving_cpu = j]
                      ELSE x
        traced(x) == [x EXCEPT !.tr[j] = [@ EXCEPT !.j_util = j_util,
                                                   !.j_nl = j_nl,
                                                   !.agg_util = x.util]]
    IN  waltgov_walt_adjust(traced(driving(a)), j, cpus[j], p, tun, j_util,
                            j_nl)

\* One pass of the for_each_cpu loop of waltgov_next_freq_shared.
next_freq_shared_cpu(a, j, p, tun, cpus) ==
    LET boost == tun.boost
        j_util == IF boost # 0
                  THEN mult_frac(cpus[j].util, boost + 100, 100)
                  ELSE cpus[j].util
        j_nl == IF boost # 0
                THEN mult_frac(cpus[j].walt_load.nl, boost + 100, 100)
                ELSE cpus[j].walt_load.nl
        j_max == cpus[j].max
        driving(x) == IF j_util * x.max >= j_max * x.util
                      THEN [x EXCEPT !.util = j_util, !.max = j_max,
                                     !.driving_cpu = j]
                      ELSE x
        traced(x) == [x EXCEPT !.tr[j] = [@ EXCEPT !.j_util = j_util,
                                                   !.j_nl = j_nl,
                                                   !.agg_util = x.util]]
    IN  waltgov_walt_adjust(traced(driving(a)), j, cpus[j], p, tun, j_util,
                            j_nl)

NoTrace ==
    [j_util |-> 0, j_nl |-> 0, agg_util |-> 0, is_hiload |-> FALSE,
     hispeed |-> FALSE, nwd |-> FALSE, util_in |-> 0, max_in |-> 0,
     util_out |-> 0]

\* for_each_cpu(j, policy->cpus), in ascending CPU order.
RECURSIVE next_freq_shared_loop(_, _, _, _, _)
next_freq_shared_loop(a, todo, p, tun, cpus) ==
    LET pass(j) == next_freq_shared_loop(
                       next_freq_shared_cpu(a, j, p, tun, cpus),
                       todo \ {j}, p, tun, cpus)
    IN  IF todo = {}
        THEN a
        ELSE pass(CHOOSE c \in todo : \A o \in todo : c <= o)

\* The aggregation of waltgov_next_freq_shared, before get_next_freq.
next_freq_shared_agg(p, tun, pol, cpus) ==
    next_freq_shared_loop(
        [util |-> 0, max |-> 1, driving_cpu |-> p.driving_cpu,
         reasons |-> [c \in DOMAIN cpus |-> cpus[c].reasons],
         newtask_flag |-> p.newtask_flag,
         tr |-> [c \in DOMAIN cpus |-> NoTrace]],
        pol.cpus, p, tun, cpus)

\* fbg_freq_policy_util (frame boost builds) is outside this file; it is taken
\* to leave util as aggregated.
waltgov_next_freq_shared(p, tun, pol, cpus, time, rt) ==
    LET selected(a) ==
            get_next_freq([p EXCEPT !.driving_cpu = a.driving_cpu,
                                    !.newtask_flag = a.newtask_flag],
                          tun, pol,
                          [c \in Cpus |->
                              [cpus[c] EXCEPT !.reasons = a.reasons[c]]],
                          a.util, a.max, time, rt)
            @@ [util |-> a.util, max |-> a.max]
    IN  selected(next_freq_shared_agg(p, tun, pol, cpus))

\* Variant of waltgov_fast_switch that accounts the elapsed cycles at the
\* new frequency.
waltgov_fast_switch_new_cycles(p, pol, time, next_freq) ==
    [p |-> waltgov_track_cycles(p, next_freq, time),
     pol |-> [pol EXCEPT !.cur = next_freq]]

\* waltgov_track_cycles at policy->cur, then cpufreq_driver_fast_switch.
waltgov_fast_switch(p, pol, time, next_freq) ==
    [p |-> waltgov_track_cycles(p, pol.cur, time),
     pol |-> [pol EXCEPT !.cur = next_freq]]

\* Variant of waltgov_deferred_update that queues nothing.
waltgov_deferred_update_dropped(wk) == wk

\* walt_irq_work_queue(&wg_policy->irq_work)
waltgov_deferred_update(wk) == [wk EXCEPT !.irq = TRUE]

\* What a callback that did nothing reports.
NoOut ==
    [dropped |-> FALSE, recomputed |-> FALSE, resolved |-> FALSE,
     committed |-> FALSE, fast_switch |-> FALSE, queued |-> FALSE,
     raw_freq |-> 0, freq |-> 0, util |-> 0]

\* Variant of update_freq_gate that ignores the continue flag.
update_freq_gate_any(should_update, flags) == should_update

\* The condition under which the callback recomputes:
\* waltgov_should_update_freq(...) && !(flags & WALT_CPUFREQ_CONTINUE).
update_freq_gate(should_update, flags) ==
    should_update /\ WALT_CPUFREQ_CONTINUE \notin flags

\* The callback returns at once on a predicted-load event while the pl
\* tunable is off.
update_freq_dropped(tun, flags) == ~tun.pl /\ WALT_CPUFREQ_PL \in flags

\* wg_cpu->util = waltgov_get_util(wg_cpu); wg_cpu->flags = flags: the slot
\* of cpu takes what the scheduler reports (capacity, clamped utilization,
\* walt_load) and its reasons are cleared.
waltgov_sample(cpus, cpu, flags, sample) ==
    [cpus EXCEPT ![cpu] =
        [util |-> sample.util, max |-> sample.max, flags |-> flags,
         reasons |-> {}, walt_load |-> sample.walt_load]]

\* The update callback of CPU cpu from the capacity test to the dispatch: the
\* part that runs under update_lock in every build.  cpus1 holds the slots
\* as sampled.
waltgov_update_freq_locked(p, tun, pol, cpus1, wk, cpu, time, flags, rt) ==
    LET slot == cpus1[cpu]
        flagged(x) == IF config.frame_boost THEN [x EXCEPT !.flags = flags]
                      ELSE x
        capped(x) ==
            IF x.max # slot.max
            THEN [x EXCEPT
                    !.max = slot.max,
                    !.hispeed_util =
                        target_util([x EXCEPT !.max = slot.max], tun, pol,
                                    tun.hispeed_freq),
                    !.rtg_boost_util =
                        target_util([x EXCEPT !.max = slot.max], tun, pol,
                                    tun.rtg_boost_freq)]
            ELSE x
        tro(n) == [NoOut EXCEPT !.recomputed = TRUE, !.resolved = n.resolved,
                                !.committed = (n.ret # 0),
                                !.raw_freq = n.raw_freq, !.freq = n.freq,
                                !.util = n.util]
        switched(n, fs) ==
            [p |-> fs.p, pol |-> fs.pol, cpus |-> n.cpus, wk |-> wk,
             out |-> [tro(n) EXCEPT !.fast_switch = TRUE]]
        applied(n) ==
            IF n.p.bug
            THEN [p |-> n.p, pol |-> pol, cpus |-> n.cpus, wk |-> wk,
                  out |-> NoOut]
            ELSE IF n.ret = 0
            THEN [p |-> n.p, pol |-> pol, cpus |-> n.cpus, wk |-> wk,
                  out |-> tro(n)]
            ELSE IF pol.fast_switch_enabled
            THEN switched(n, waltgov_fast_switch(n.p, pol, time, n.ret))
            ELSE [p |-> n.p, pol |-> pol, cpus |-> n.cpus,
                  wk |-> waltgov_deferred_update(wk),
                  out |-> [tro(n) EXCEPT !.queued = TRUE]]
        gated(su) ==
            IF ~update_freq_gate(su.ret, flags)
            THEN [p |-> su.p, pol |-> pol, cpus |-> cpus1, wk |-> wk,
                  out |-> NoOut]
            ELSE applied(waltgov_next_freq_shared(su.p, tun, pol, cpus1, time,
                                                  rt))
        tracked(x) ==
            IF x.bug
            THEN [p |-> x, pol |-> pol, cpus |-> cpus1, wk |-> wk,
                  out |-> NoOut]
            ELSE gated(waltgov_should_update_freq(x, time))
    IN  tracked(waltgov_calc_avg_cap(capped(flagged(p)), pol,
                                     slot.walt_load.ws, pol.cur))

\* The update callback of CPU cpu.  sample is what the scheduler reports for
\* the CPU (waltgov_get_util: capacity, clamped utilization, walt_load).
waltgov_update_freq(p, tun, pol, cpus, wk, cpu, time, flags, sample, rt) ==
    IF update_freq_dropped(tun, flags)
    THEN [p |-> p, pol |-> pol, cpus |-> cpus, wk |-> wk,
          out |-> [NoOut EXCEPT !.dropped = TRUE]]
    ELSE waltgov_update_freq_locked(p, tun, pol,
                                    waltgov_sample(cpus, cpu, flags, sample),
                                    wk, cpu, time, flags, rt)

\* The kthread work of the deferred path: __cpufreq_driver_target(policy,
\* freq, CPUFREQ_RELATION_L) sets policy->cur to the resolved frequency.
waltgov_work(p, pol, clock) ==
    [p |-> waltgov_track_cycles(p, pol.cur, clock),
     pol |-> [pol EXCEPT !.cur = cpufreq_driver_resolve_freq(pol, p.next_freq)]]

\* Variant of waltgov_limits whose fast path passes policy->cur on as it is,
\* without resolving it against the new limits.
waltgov_limits_unresolved(p, pol, clock) ==
    LET switched(u, fs) ==
            IF u.ret
            THEN [p |-> [fs.p EXCEPT !.limits_changed = TRUE],
                  pol |-> fs.pol,
                  out |-> [NoOut EXCEPT !.committed = TRUE,
                                        !.fast_switch = TRUE]]
            ELSE [p |-> [u.p EXCEPT !.limits_changed = TRUE],
                  pol |-> pol,
                  out |-> NoOut]
        updated(u, final_freq) ==
            switched(u, waltgov_fast_switch(u.p, pol, clock, final_freq))
        resolved(final_freq) ==
            updated(waltgov_update_next_freq(p, clock, final_freq, final_freq),
                    final_freq)
    IN  IF ~pol.fast_switch_enabled
        THEN [p |-> [waltgov_track_cycles(p, pol.cur, clock)
                        EXCEPT !.limits_changed = TRUE],
              pol |-> cpufreq_policy_apply_limits(pol),
              out |-> NoOut]
        ELSE resolved(pol.cur)

\* pol already carries the new limits.
waltgov_limits(p, pol, clock) ==
    LET switched(u, fs) ==
            IF u.ret
            THEN [p |-> [fs.p EXCEPT !.limits_changed = TRUE],
                  pol |-> fs.pol,
                  out |-> [NoOut EXCEPT !.committed = TRUE,
                                        !.fast_switch = TRUE]]
            ELSE [p |-> [u.p EXCEPT !.limits_changed = TRUE],
                  pol |-> pol,
                  out |-> NoOut]
        updated(u, final_freq) ==
            switched(u, waltgov_fast_switch(u.p, pol, clock, final_freq))
        resolved(final_freq) ==
            updated(waltgov_update_next_freq(p, clock, final_freq, final_freq),
                    final_freq)
    IN  IF ~pol.fast_switch_enabled
        THEN [p |-> [waltgov_track_cycles(p, pol.cur, clock)
                        EXCEPT !.limits_changed = TRUE],
              pol |-> cpufreq_policy_apply_limits(pol),
              out |-> NoOut]
        ELSE resolved(cpufreq_driver_resolve_freq(pol, pol.cur))

update_min_rate_limit_ns(p) ==
    [p EXCEPT !.min_rate_limit_ns =
                  Min(p.up_rate_delay_ns, p.down_rate_delay_ns)]

\* memset(wg_cpu, 0, sizeof(*wg_cpu))
ZeroCpu ==
    [util |-> 0, max |-> 0, flags |-> {}, reasons |-> {},
     walt_load |-> [ws |-> 0, nl |-> 0, pl |-> 0, rtgb_active |-> FALSE,
                    ed_active |-> FALSE, big_task_rotation |-> FALSE]]

\* Variant of waltgov_start that keeps the frequency chosen before the stop.
waltgov_start_keep_next_freq(p, tun) ==
    LET q == [p EXCEPT
                !.up_rate_delay_ns = tun.up_rate_limit_us * NSEC_PER_USEC,
                !.down_rate_delay_ns = tun.down_rate_limit_us * NSEC_PER_USEC]
    IN  [update_min_rate_limit_ns(q) EXCEPT
            !.last_freq_update_time = 0,
            !.limits_changed = FALSE,
            !.need_freq_update = FALSE,
            !.flags = {}]

waltgov_start(p, tun) ==
    LET q == [p EXCEPT
                !.up_rate_delay_ns = tun.up_rate_limit_us * NSEC_PER_USEC,
                !.down_rate_delay_ns = tun.down_rate_limit_us * NSEC_PER_USEC]
    IN  [update_min_rate_limit_ns(q) EXCEPT
            !.last_freq_update_time = 0,
            !.next_freq = 0,
            !.limits_changed = FALSE,
            !.need_freq_update = FALSE,
            !.cached_raw_freq = 0,
            !.flags = {}]

\* The threads of control that run the governor's handlers: the scheduler
\* on each CPU (update callbacks), a sysfs writer, the cpufreq core calling
\* limits(), and the domain's kthread.
Threads == {"cb0", "cb1", "store", "limits", "kthread"}

Idle == [at |-> "idle"]

NoThreads == [t \in Threads |-> Idle]

NoLocks ==
    [update_lock |-> "none", work_lock |-> "none", min_rate_lock |-> "none",
     rq |-> [c \in Cpus |-> "none"]]

\* kzalloc'ed struct waltgov_policy (waltgov_policy_alloc); cyc_wrapped and
\* bug record a wrapped elapsed time and a hit BUG_ON.
ZeroPolicy ==
    [last_ws |-> 0, curr_cycles |-> 0, last_cyc_update_time |-> 0,
     avg_cap |-> 0, hispeed_util |-> 0, rtg_boost_util |-> 0, max |-> 0,
     last_freq_update_time |-> 0, min_rate_limit_ns |-> 0,
     up_rate_delay_ns |-> 0, down_rate_delay_ns |-> 0, next_freq |-> 0,
     cached_raw_freq |-> 0, driving_cpu |-> 0, limits_changed |-> FALSE,
     need_freq_update |-> FALSE, newtask_flag |-> 0, flags |-> {},
     cyc_wrapped |-> FALSE, bug |-> FALSE]

\* The tunables waltgov_init sets up for a prime-cluster policy
\* (rtg_boost_freq = DEFAULT_PRIME_RTG_BOOST_FREQ = 0), before the restore.
DefaultTunables ==
    [up_rate_limit_us |-> 0, down_rate_limit_us |-> 0,
     hispeed_load |-> DEFAULT_HISPEED_LOAD, hispeed_freq |-> 0,
     rtg_boost_freq |-> 0, adaptive_low_freq |-> 0, adaptive_high_freq |-> 0,
     adaptive_low_freq_kernel |-> 0, adaptive_high_freq_kernel |-> 0,
     target_load_thresh |-> DEFAULT_TARGET_LOAD_THRESH,
     target_load_shift |-> DEFAULT_TARGET_LOAD_SHIFT,
     pl |-> FALSE, boost |-> 0]

(***************************************************************************)
(* What exists around the domain: the objects waltgov_init sets up and     *)
(* waltgov_exit takes down, the per-CPU callback and domain pointers, and  *)
(* the per-CPU cache of tunables.                                          *)
(***************************************************************************)
\* Nothing pending on the deferred path.
NoWork == [irq |-> FALSE, queued |-> FALSE]

\* The fields waltgov_tunables_save copies into the cache, and the fields
\* waltgov_tunables_restore copies back.
SavedFields ==
    {"pl", "hispeed_load", "rtg_boost_freq", "hispeed_freq",
     "up_rate_limit_us", "down_rate_limit_us", "boost", "adaptive_low_freq",
     "adaptive_high_freq", "adaptive_low_freq_kernel",
     "adaptive_high_freq_kernel", "target_load_thresh", "target_load_shift"}

RestoredFields ==
    {"pl", "hispeed_load", "rtg_boost_freq", "hispeed_freq",
     "up_rate_limit_us", "down_rate_limit_us", "boost", "adaptive_low_freq",
     "adaptive_high_freq", "adaptive_low_freq_kernel",
     "adaptive_high_freq_kernel", "target_load_thresh", "target_load_shift"}

\* kzalloc'ed struct waltgov_tunables.
ZeroTunables ==
    [up_rate_limit_us |-> 0, down_rate_limit_us |-> 0, hispeed_load |-> 0,
     hispeed_freq |-> 0, rtg_boost_freq |-> 0, adaptive_low_freq |-> 0,
     adaptive_high_freq |-> 0, adaptive_low_freq_kernel |-> 0,
     adaptive_high_freq_kernel |-> 0, target_load_thresh |-> 0,
     target_load_shift |-> 0, pl |-> FALSE, boost |-> 0]

\* Copy the named fields of a tunables struct over another one.
CopyFields(fields, from, to) ==
    [f \in DOMAIN to |-> IF f \in fields THEN from[f] ELSE to[f]]

\* The resources of a domain that waltgov_init attached with nothing cached,
\* at lifecycle stage g: governor_data is policy->governor_data != NULL;
\* domain is the struct waltgov_policy ("none", "live", "freed"); thread,
\* tunables_alloc and kobject say whether the kthread, the tunables struct
\* and its sysfs object exist; cb is the set of CPUs whose update callback is
\* registered; wg_policy_ptr is wg_cpu->wg_policy per CPU ("NULL", "live",
\* "freed"); cached_tunables is the per-CPU pointer into cache (0: NULL);
\* setup and undo log the calls of the last waltgov_init or waltgov_exit;
\* bug records a hit BUG_ON, fault a kernel fault, uaf a callback or
\* deferred work that ran on a freed domain, api_uaf an adaptive-frequency
\* call that used a freed domain.
LifeOf(g, pol) ==
    [governor_data |-> TRUE, domain |-> "live",
     thread |-> ~pol.fast_switch_enabled, tunables_alloc |-> TRUE,
     kobject |-> TRUE,
     cb |-> IF g = "started" THEN pol.cpus ELSE {},
     wg_policy_ptr |-> [c \in Cpus |-> IF g \in {"started", "stopped"}
                                          /\ c \in pol.cpus
                                       THEN "live" ELSE "NULL"],
     cached_tunables |-> [c \in Cpus |-> 0], cache |-> <<>>,
     setup |-> <<>>, undo |-> <<>>,
     bug |-> FALSE, fault |-> FALSE, uaf |-> FALSE,
     api_uaf |-> FALSE]

\* Before the first waltgov_init: nothing exists.
NoLife ==
    [governor_data |-> FALSE, domain |-> "none", thread |-> FALSE,
     tunables_alloc |-> FALSE, kobject |-> FALSE, cb |-> {},
     wg_policy_ptr |-> [c \in Cpus |-> "NULL"],
     cached_tunables |-> [c \in Cpus |-> 0], cache |-> <<>>,
     setup |-> <<>>, undo |-> <<>>,
     bug |-> FALSE, fault |-> FALSE, uaf |-> FALSE,
     api_uaf |-> FALSE]

\* Variant of waltgov_tunables_save that publishes a new cache entry for
\* policy->cpu only.
waltgov_tunables_save_one_cpu(lf, tun, pol, alloc_ok) ==
    LET copied(l) ==
            [l EXCEPT !.cache[l.cached_tunables[pol.cpu]] =
                          CopyFields(SavedFields, tun, @)]
    IN  IF lf.cached_tunables[pol.cpu] # 0 THEN copied(lf)
        ELSE IF ~alloc_ok THEN lf
        ELSE copied([lf EXCEPT
                 !.cache = Append(@, ZeroTunables),
                 !.cached_tunables[pol.cpu] = Len(lf.cache) + 1])

\* waltgov_tunables_save: the cache entry of policy->cpu is allocated on
\* first use (alloc_ok: kzalloc succeeds) and published for every CPU of
\* policy->related_cpus; then the saved fields are copied in.
waltgov_tunables_save(lf, tun, pol, alloc_ok) ==
    LET copied(l) ==
            [l EXCEPT !.cache[l.cached_tunables[pol.cpu]] =
                          CopyFields(SavedFields, tun, @)]
    IN  IF lf.cached_tunables[pol.cpu] # 0 THEN copied(lf)
        ELSE IF ~alloc_ok THEN lf
        ELSE copied([lf EXCEPT
                 !.cache = Append(@, ZeroTunables),
                 !.cached_tunables =
                     [c \in Cpus |-> IF c \in pol.related_cpus
                                     THEN Len(lf.cache) + 1 ELSE @[c]]])

\* waltgov_tunables_restore
waltgov_tunables_restore(lf, tun, pol) ==
    IF lf.cached_tunables[pol.cpu] = 0 THEN tun
    ELSE CopyFields(RestoredFields, lf.cache[lf.cached_tunables[pol.cpu]],
                    tun)

\* waltgov_kthread_stop on the record s = [life, pol, tun, p, ret] that
\* waltgov_init and waltgov_exit thread through their steps.
waltgov_kthread_stop(s) ==
    [s EXCEPT !.life.thread = IF s.pol.fast_switch_enabled THEN @ ELSE FALSE,
              !.life.undo = Append(@, "waltgov_kthread_stop")]

\* waltgov_policy_free: kfree(wg_policy); the per-CPU pointers to it stay.
waltgov_policy_free(s) ==
    [s EXCEPT !.life.domain = "freed",
              !.life.wg_policy_ptr =
                  [c \in Cpus |-> IF @[c] = "live" THEN "freed" ELSE @[c]],
              !.life.undo = Append(@, "waltgov_policy_free")]

cpufreq_disable_fast_switch(s) ==
    [s EXCEPT !.pol.fast_switch_enabled = FALSE,
              !.life.undo = Append(@, "cpufreq_disable_fast_switch")]

\* The labels of waltgov_init, each falling through to the next.
init_disable_fast_switch(s) == cpufreq_disable_fast_switch(s)

init_free_wg_policy(s) == init_disable_fast_switch(waltgov_policy_free(s))

\* Variant of the label stop_kthread that leaves the kthread running.
init_stop_kthread_skipped(s) == init_free_wg_policy(s)

init_stop_kthread(s) == init_free_wg_policy(waltgov_kthread_stop(s))

init_fail(s) ==
    init_stop_kthread(
        [s EXCEPT !.life.kobject = FALSE,
                  !.life.governor_data = FALSE,
                  !.life.tunables_alloc = FALSE,
                  !.life.undo = Append(@, "kfree(tunables)")])

\* The steps of waltgov_init an input can make fail.
InitSteps ==
    {"waltgov_policy_alloc", "kthread_create", "sched_setscheduler_nocheck",
     "kzalloc(tunables)", "kobject_init_and_add"}

\* What each of them returns when it fails.
InitError(step) ==
    IF step \in {"waltgov_policy_alloc", "kzalloc(tunables)"} THEN "-ENOMEM"
    ELSE IF step = "kthread_create" THEN "PTR_ERR(thread)"
    ELSE "ret"

\* waltgov_init from the tunables allocation on.
init_tunables(s, fail) ==
    IF fail = "kzalloc(tunables)"
    THEN init_stop_kthread([s EXCEPT !.ret = "-ENOMEM"])
    ELSE LET set(t) ==
                 [s EXCEPT !.tun = waltgov_tunables_restore(s.life, t, s.pol),
                           !.life.tunables_alloc = TRUE,
                           !.life.governor_data = TRUE,
                           !.life.setup = Append(@, "kzalloc(tunables)")]
             added(t) ==
                 IF fail = "kobject_init_and_add"
                 THEN init_fail([t EXCEPT !.ret = InitError(fail)])
                 ELSE [t EXCEPT !.life.kobject = TRUE,
                                !.life.setup =
                                    Append(@, "kobject_init_and_add"),
                                !.ret = "0"]
         IN  added(set(DefaultTunables))

\* waltgov_init from waltgov_kthread_create on.
init_kthread(s, fail) ==
    IF ~s.pol.fast_switch_enabled
       /\ fail \in {"kthread_create", "sched_setscheduler_nocheck"}
    THEN init_free_wg_policy([s EXCEPT !.ret = InitError(fail)])
    ELSE init_tunables(
             [s EXCEPT !.life.thread = ~s.pol.fast_switch_enabled,
                       !.life.setup = Append(@, "waltgov_kthread_create")],
             fail)

\* waltgov_init from waltgov_policy_alloc on.
init_policy_alloc(s, fail) ==
    IF fail = "waltgov_policy_alloc"
    THEN init_disable_fast_switch([s EXCEPT !.ret = "-ENOMEM"])
    ELSE init_kthread(
             [s EXCEPT !.p = ZeroPolicy,
                       !.life.domain = "live",
                       !.life.setup = Append(@, "waltgov_policy_alloc")],
             fail)

\* waltgov_init from cpufreq_enable_fast_switch on: fail names the step
\* that fails ("none": no step does); fs_ok says whether
\* cpufreq_enable_fast_switch can enable fast switching where the driver
\* offers it.
init_enable_fast_switch(lf, pol, tun, p, fail, fs_ok) ==
    LET enabled(s) ==
            IF s.pol.fast_switch_possible /\ ~s.pol.fast_switch_enabled
            THEN [s EXCEPT !.life.bug = TRUE, !.ret = "BUG"]
            ELSE init_policy_alloc(s, fail)
    IN  enabled(
            [life |-> [lf EXCEPT !.setup = <<"cpufreq_enable_fast_switch">>,
                                 !.undo = <<>>],
             pol |-> [pol EXCEPT !.fast_switch_enabled =
                                     pol.fast_switch_possible /\ fs_ok],
             tun |-> tun, p |-> p, ret |-> "0"])

\* Variant of waltgov_init without the test of policy->governor_data.
waltgov_init_no_busy_check(lf, pol, tun, p, fail, fs_ok) ==
    init_enable_fast_switch(lf, pol, tun, p, fail, fs_ok)

\* waltgov_init(policy)
waltgov_init(lf, pol, tun, p, fail, fs_ok) ==
    IF lf.governor_data
    THEN [life |-> lf, pol |-> pol, tun |-> tun, p |-> p, ret |-> "-EBUSY"]
    ELSE init_enable_fast_switch(lf, pol, tun, p, fail, fs_ok)

\* waltgov_exit(policy); gov_attr_set_put drops the only reference to the
\* policy's own tunables, so count is 0.
waltgov_exit(lf, pol, tun, p, alloc_ok) ==
    LET saved(s) ==
            [s EXCEPT !.life = [waltgov_tunables_save(@, s.tun, s.pol,
                                                      alloc_ok)
                                   EXCEPT !.tunables_alloc = FALSE]]
    IN  cpufreq_disable_fast_switch(
            waltgov_policy_free(
                waltgov_kthread_stop(
                    saved([life |-> [lf EXCEPT !.kobject = FALSE,
                                               !.governor_data = FALSE,
                                               !.setup = <<>>,
                                               !.undo = <<>>],
                           pol |-> pol, tun |-> tun, p |-> p,
                           ret |-> "0"]))))

\* waltgov_start on what surrounds the domain: every CPU of policy->cpus
\* gets its pointer to the domain and its callback.
waltgov_start_life(lf, pol) ==
    [lf EXCEPT !.wg_policy_ptr = [c \in Cpus |-> IF c \in pol.cpus
                                                 THEN "live" ELSE @[c]],
               !.cb = @ \cup pol.cpus]

\* Variant of waltgov_stop that does not cancel the kthread work.
waltgov_stop_no_cancel(lf, wk, pol) ==
    [life |-> [lf EXCEPT !.cb = @ \ pol.cpus],
     wk |-> IF pol.fast_switch_enabled THEN wk
            ELSE [irq |-> FALSE, queued |-> wk.queued \/ wk.irq]]

\* waltgov_stop: the callbacks of policy->cpus are removed and
\* synchronize_rcu waits for the running ones; on the deferred path
\* irq_work_sync waits for a pending irq work to run (it queues the kthread
\* work) and kthread_cancel_work_sync takes the kthread work off the queue.
waltgov_stop(lf, wk, pol) ==
    LET irq_work_sync(w) == [irq |-> FALSE, queued |-> w.queued \/ w.irq]
        kthread_cancel_work_sync(w) == [w EXCEPT !.queued = FALSE]
    IN  [life |-> [lf EXCEPT !.cb = @ \ pol.cpus],
         wk |-> IF pol.fast_switch_enabled THEN wk
                ELSE kthread_cancel_work_sync(irq_work_sync(wk))]

(***************************************************************************)
(* Bounds and input sets of the governor specification.                    *)
(***************************************************************************)
\* Operations (clock steps included) per behaviour.
MaxOps == 5
\* Tunable and adaptive-frequency API writes per behaviour.
MaxStores == 1

\* One clock step: half a window.
TickNs == sched_ravg_window \div 2
\* The clock when the governor is initialised: well past the zeroed last_ws.
T0 == 3 * sched_ravg_window

\* rq->window_start as the scheduler reports it at time t.
WindowStart(t) == (t \div sched_ravg_window) * sched_ravg_window

\* The frequency table of the modelled policy, kHz.
FreqTable == {100, 200, 300, 400}

SampleProfiles ==
    { [util |-> 0, max |-> 1024, nl |-> 0, pl |-> 0, rtgb_active |-> FALSE,
       ed_active |-> FALSE, big_task_rotation |-> FALSE],
      [util |-> 300, max |-> 1024, nl |-> 0, pl |-> 0, rtgb_active |-> FALSE,
       ed_active |-> FALSE, big_task_rotation |-> FALSE],
      [util |-> 900, max |-> 1024, nl |-> 900, pl |-> 600,
       rtgb_active |-> FALSE, ed_active |-> FALSE,
       big_task_rotation |-> FALSE] }

\* What waltgov_get_util reads for a CPU at time t under a profile.
Sample(pr, t) ==
    [util |-> pr.util, max |-> pr.max,
     walt_load |-> [ws |-> WindowStart(t), nl |-> pr.nl, pl |-> pr.pl,
                    rtgb_active |-> pr.rtgb_active,
                    ed_active |-> pr.ed_active,
                    big_task_rotation |-> pr.big_task_rotation]]

\* Flags the scheduler passes to the callback.  SCHED_CPUFREQ_DEF_FRAMEBOOST
\* exists in frame boost builds only.
FlagSets ==
    { {}, {WALT_CPUFREQ_CONTINUE}, {WALT_CPUFREQ_PL},
      {WALT_CPUFREQ_CONTINUE, WALT_CPUFREQ_PL} }
    \cup (IF config.frame_boost THEN {{SCHED_CPUFREQ_DEF_FRAMEBOOST}} ELSE {})

\* New policy limits handed to limits().
LimitPairs == { <<100, 400>>, <<100, 200>> }

\* Tunables as restored by waltgov_tunables_restore from an earlier attach.
InitTunables ==
    { DefaultTunables,
      [DefaultTunables EXCEPT !.up_rate_limit_us = 2000,
                              !.down_rate_limit_us = 4000,
                              !.hispeed_freq = 300] }

(***************************************************************************)
(* History for the properties (never read by the code).                    *)
(***************************************************************************)
\* t_change: when next_freq last changed since start (-1: not yet);
\* lim_pending: limits() ran and no processed callback without the continue
\* flag has run since; stable: -1, or the avg_cap of the commit that began
\* the current run of callbacks with unchanged inputs.
HistInit == [t_change |-> -1, lim_pending |-> FALSE, stable |-> -1]

\* The sample content of a slot: what the scheduler handed in.
SlotInputs(c) == [c EXCEPT !.reasons = {}, !.walt_load.ws = 0]

\* The record kept of the last operation.
Did(op, cpu, flags, out, second, inrun) ==
    [op |-> op, cpu |-> cpu, flags |-> flags, dropped |-> out.dropped,
     recomputed |-> out.recomputed, committed |-> out.committed,
     second |-> second, inrun |-> inrun]

Other(op) == Did(op, 0, {}, NoOut, FALSE, FALSE)

\* The operations that run the update callback.
CallbackOps == {"cb", "boost_store"}

(***************************************************************************)
(* Operations of the governor specification.                               *)
(***************************************************************************)
Alive == ~wg_policy.bug /\ ops < MaxOps

\* The clock advances by one step.
Tick ==
    /\ ops < MaxOps
    /\ now' = now + TickNs
    /\ ops' = ops + 1
    /\ last' = Other("tick")
    /\ UNCHANGED <<pc, locks, life, gov, config, tunables, wg_policy, wg_cpu, policy, work,
                   hist, stores>>

Start ==
    /\ Alive
    /\ gov \in {"initialized", "stopped"}
    /\ gov' = "started"
    /\ wg_policy' = waltgov_start(wg_policy, tunables)
    /\ wg_cpu' = [c \in Cpus |-> IF c \in policy.cpus THEN ZeroCpu
                                  ELSE wg_cpu[c]]
    /\ hist' = HistInit
    /\ life' = waltgov_start_life(life, policy)
    /\ last' = Other("start")
    /\ ops' = ops + 1
    /\ UNCHANGED <<pc, locks, now, config, tunables, policy, work, stores>>

\* irq_work_sync and kthread_cancel_work_sync leave nothing queued.
Stop ==
    /\ Alive
    /\ gov = "started"
    /\ gov' = "stopped"
    /\ LET done(r) == work' = r.wk /\ life' = r.life
       IN  done(waltgov_stop(life, work, policy))
    /\ hist' = [hist EXCEPT !.stable = -1]
    /\ last' = Other("stop")
    /\ ops' = ops + 1
    /\ UNCHANGED <<pc, locks, now, config, tunables, wg_policy, wg_cpu, policy, stores>>

\* The scheduler runs the update callback of cpu with flags at the current
\* time; what it finds on the CPU is one of the sample profiles.
CallbackDone(op, cpu, flags, r) ==
    LET inrun == /\ op = "cb" /\ ~r.out.dropped /\ hist.stable # -1
                 /\ SlotInputs(r.cpus[cpu]) = SlotInputs(wg_cpu[cpu])
        consume == ~r.out.dropped /\ WALT_CPUFREQ_CONTINUE \notin flags
        changed == r.p.next_freq # wg_policy.next_freq
    IN  /\ wg_policy' = r.p
        /\ policy' = r.pol
        /\ wg_cpu' = r.cpus
        /\ work' = r.wk
        /\ hist' = [t_change |-> IF changed THEN now ELSE hist.t_change,
                    lim_pending |-> hist.lim_pending /\ ~consume,
                    stable |-> IF r.out.committed THEN r.p.avg_cap
                               ELSE IF inrun THEN hist.stable
                               ELSE -1]
        /\ last' = Did(op, cpu, flags, r.out,
                       changed /\ hist.t_change # -1, inrun)

RunCallback(op, tun, cpu, flags, pr) ==
    CallbackDone(op, cpu, flags,
                 waltgov_update_freq(wg_policy, tun, policy, wg_cpu, work,
                                     cpu, now, flags, Sample(pr, now),
                                     config.rt_util))

Callback(cpu, flags, pr) ==
    /\ Alive
    /\ gov = "started"
    /\ cpu \in policy.cpus
    /\ RunCallback("cb", tunables, cpu, flags, pr)
    /\ ops' = ops + 1
    /\ UNCHANGED <<pc, locks, life, now, gov, config, tunables, stores>>

\* waltgov_irq_work: kthread_queue_work.
IrqWork ==
    /\ Alive
    /\ work.irq
    /\ work' = [irq |-> FALSE, queued |-> TRUE]
    /\ last' = Other("irq_work")
    /\ ops' = ops + 1
    /\ UNCHANGED <<pc, locks, life, now, gov, config, tunables, wg_policy, wg_cpu, policy,
                   hist, stores>>

Work ==
    /\ Alive
    /\ work.queued
    /\ LET done(r) == wg_policy' = r.p /\ policy' = r.pol
       IN  done(waltgov_work(wg_policy, policy, now))
    /\ work' = [work EXCEPT !.queued = FALSE]
    /\ last' = Other("work")
    /\ ops' = ops + 1
    /\ UNCHANGED <<pc, locks, life, now, gov, config, tunables, wg_cpu, hist, stores>>

\* The cpufreq core sets the new limits and calls the governor's limits().
Limits(lim) ==
    /\ Alive
    /\ gov = "started"
    /\ LET changed(r) == r.p.next_freq # wg_policy.next_freq
           done(r) ==
               /\ wg_policy' = r.p
               /\ policy' = r.pol
               /\ hist' = [t_change |-> IF changed(r) THEN now
                                        ELSE hist.t_change,
                           lim_pending |-> TRUE,
                           stable |-> -1]
               /\ last' = Did("limits", 0, {}, r.out,
                              changed(r) /\ hist.t_change # -1, FALSE)
       IN  done(waltgov_limits(wg_policy,
                               [policy EXCEPT !.min = lim[1], !.max = lim[2]],
                               now))
    /\ ops' = ops + 1
    /\ UNCHANGED <<pc, locks, life, now, gov, config, tunables, wg_cpu, work, stores>>

(***************************************************************************)
(* The sysfs stores and the kernel adaptive-frequency API.  A store reaches *)
(* every domain on the tunable set's policy_list: here the one domain.     *)
(***************************************************************************)
up_rate_limit_us_store(tun, p, rate_limit_us) ==
    [tun |-> [tun EXCEPT !.up_rate_limit_us = rate_limit_us],
     p |-> update_min_rate_limit_ns(
               [p EXCEPT !.up_rate_delay_ns = rate_limit_us * NSEC_PER_USEC])]

down_rate_limit_us_store(tun, p, rate_limit_us) ==
    [tun |-> [tun EXCEPT !.down_rate_limit_us = rate_limit_us],
     p |-> update_min_rate_limit_ns(
               [p EXCEPT !.down_rate_delay_ns = rate_limit_us * NSEC_PER_USEC])]

hispeed_load_store(tun, p, val) ==
    [tun |-> [tun EXCEPT !.hispeed_load = Min(100, val)], p |-> p]

\* Variant of hispeed_freq_store that writes the tunable and leaves the
\* domain's cached utilization as it was.
hispeed_freq_store_stale(tun, p, pol, val) ==
    [tun |-> [tun EXCEPT !.hispeed_freq = val], p |-> p]

hispeed_freq_store(tun, p, pol, val) ==
    LET t == [tun EXCEPT !.hispeed_freq = val]
    IN  [tun |-> t,
         p |-> [p EXCEPT !.hispeed_util = target_util(p, t, pol, val)]]

rtg_boost_freq_store(tun, p, pol, val) ==
    LET t == [tun EXCEPT !.rtg_boost_freq = val]
    IN  [tun |-> t,
         p |-> [p EXCEPT !.rtg_boost_util = target_util(p, t, pol, val)]]

pl_store(tun, p, val) == [tun |-> [tun EXCEPT !.pl = val], p |-> p]

\* store_attr(name): adaptive_low_freq, adaptive_high_freq,
\* target_load_thresh, target_load_shift.
store_attr(tun, p, name, val) ==
    [tun |-> [tun EXCEPT ![name] = val], p |-> p]

cpufreq_walt_set_adaptive_freq(tun, p, pol, low, high) ==
    IF pol.min <= low /\ pol.max >= high
    THEN [tun |-> [tun EXCEPT !.adaptive_low_freq_kernel = low,
                              !.adaptive_high_freq_kernel = high],
          p |-> p]
    ELSE [tun |-> tun, p |-> p]

cpufreq_walt_reset_adaptive_freq(tun, p) ==
    [tun |-> [tun EXCEPT !.adaptive_low_freq_kernel = 0,
                         !.adaptive_high_freq_kernel = 0],
     p |-> p]

\* A write that touches the tunables and the domain only.
Write(op, r) ==
    /\ Alive
    /\ stores < MaxStores
    /\ stores' = stores + 1
    /\ ops' = ops + 1
    /\ tunables' = r.tun
    /\ wg_policy' = r.p
    /\ hist' = [hist EXCEPT !.stable = -1]
    /\ last' = Other(op)
    /\ UNCHANGED <<pc, locks, life, now, gov, config, wg_cpu, policy, work>>

RateLimitValues == {0, 2000}

UpRateLimitStore(v) ==
    Write("up_rate_limit_us_store", up_rate_limit_us_store(tunables, wg_policy, v))

DownRateLimitStore(v) ==
    Write("down_rate_limit_us_store",
          down_rate_limit_us_store(tunables, wg_policy, v))

HispeedLoadStore(v) ==
    Write("hispeed_load_store", hispeed_load_store(tunables, wg_policy, v))

HispeedFreqStore(v) ==
    Write("hispeed_freq_store",
          hispeed_freq_store(tunables, wg_policy, policy, v))

RtgBoostFreqStore(v) ==
    Write("rtg_boost_freq_store",
          rtg_boost_freq_store(tunables, wg_policy, policy, v))

PlStore(v) == Write("pl_store", pl_store(tunables, wg_policy, v))

AttrStore(name, v) ==
    Write("store_attr", store_attr(tunables, wg_policy, name, v))

AttrValues ==
    { <<"adaptive_low_freq", 200>>, <<"adaptive_high_freq", 300>>,
      <<"target_load_thresh", 512>>, <<"target_load_shift", 2>> }

\* The per-CPU wg_policy pointer the API follows is set by waltgov_start.
SetAdaptiveFreq(low, high) ==
    /\ gov \in {"started", "stopped"}
    /\ Write("set_adaptive_freq",
             cpufreq_walt_set_adaptive_freq(tunables, wg_policy, policy,
                                            low, high))

ResetAdaptiveFreq ==
    /\ gov \in {"started", "stopped"}
    /\ Write("reset_adaptive_freq",
             cpufreq_walt_reset_adaptive_freq(tunables, wg_policy))

\* boost_store: the new boost, then waltgov_run_callback(rq of policy->cpu,
\* WALT_CPUFREQ_BOOST_UPDATE), which runs the callback if one is registered.
BoostStore(val, pr) ==
    /\ Alive
    /\ stores < MaxStores
    /\ stores' = stores + 1
    /\ ops' = ops + 1
    /\ IF val < -100 \/ val > 1000
       THEN /\ last' = Other("boost_store")
            /\ UNCHANGED <<tunables, wg_policy, policy, wg_cpu, work, hist>>
       ELSE LET tun == [tunables EXCEPT !.boost = val]
            IN  /\ tunables' = tun
                /\ IF gov = "started"
                   THEN RunCallback("boost_store", tun, policy.cpu,
                                    {WALT_CPUFREQ_BOOST_UPDATE}, pr)
                   ELSE /\ last' = Other("boost_store")
                        /\ hist' = [hist EXCEPT !.stable = -1]
                        /\ UNCHANGED <<wg_policy, policy, wg_cpu, work>>
    /\ UNCHANGED <<pc, locks, life, now, gov, config>>

(***************************************************************************)
(* The governor specification: one single-CPU domain (the prime cluster)   *)
(* from waltgov_init on.                                                   *)
(***************************************************************************)
Init ==
    /\ now = T0
    /\ gov = "initialized"
    /\ config \in [frame_boost : BOOLEAN, div0_traps : {FALSE},
                   ed_boost_pct : {0}, conservative_pl : {FALSE},
                   rt_util : {0}]
    /\ tunables \in InitTunables
    /\ wg_policy = ZeroPolicy
    /\ wg_cpu = [c \in Cpus |-> ZeroCpu]
    /\ policy \in [cpu : {0}, cpus : {{0}}, cur : {100}, min : {100},
                   max : {400}, cpuinfo_max_freq : {400},
                   freq_table : {FreqTable},
                   fast_switch_enabled : BOOLEAN, is_min_cluster : {FALSE}]
    /\ work = [irq |-> FALSE, queued |-> FALSE]
    /\ last = Other("init")
    /\ hist = HistInit
    /\ stores = 0
    /\ ops = 0
    /\ life = LifeOf(gov, policy)
    /\ pc = NoThreads
    /\ locks = NoLocks

Next ==
    \/ Tick
    \/ Start
    \/ Stop
    \/ \E cpu \in Cpus, flags \in FlagSets, pr \in SampleProfiles :
           Callback(cpu, flags, pr)
    \/ IrqWork
    \/ Work
    \/ \E lim \in LimitPairs : Limits(lim)
    \/ \E v \in RateLimitValues : UpRateLimitStore(v)
    \/ \E v \in RateLimitValues : DownRateLimitStore(v)
    \/ \E v \in {50, 150} : HispeedLoadStore(v)
    \/ \E v \in {300} : HispeedFreqStore(v)
    \/ \E v \in {200} : RtgBoostFreqStore(v)
    \/ \E v \in BOOLEAN : PlStore(v)
    \/ \E a \in AttrValues : AttrStore(a[1], a[2])
    \/ \E b \in {<<200, 300>>, <<0, 500>>} : SetAdaptiveFreq(b[1], b[2])
    \/ ResetAdaptiveFreq
    \/ \E val \in {50, 2000}, pr \in SampleProfiles : BoostStore(val, pr)

Spec == Init /\ [][Next]_vars

(***************************************************************************)
(* Properties of the governor specification.                               *)
(***************************************************************************)
\* The step changes next_freq on a domain that is and stays started.
Changed ==
    /\ gov = "started" /\ gov' = "started"
    /\ wg_policy'.next_freq # wg_policy.next_freq

\* The step is at least the applicable delay after the previous change.
GapOK ==
    IF wg_policy'.next_freq > wg_policy.next_freq
    THEN now - hist.t_change >= wg_policy'.up_rate_delay_ns
    ELSE now - hist.t_change >= wg_policy'.down_rate_delay_ns

\* The step is an update callback (from the scheduler or from boost_store).
IsCallback ==
    \/ last'.op = "cb"
    \/ last'.op = "boost_store" /\ WALT_CPUFREQ_BOOST_UPDATE \in last'.flags

\* The domain's recorded event flags carry the frame boost flag after the step.
FrameBoosted ==
    config.frame_boost /\ SCHED_CPUFREQ_DEF_FRAMEBOOST \in wg_policy'.flags

\* C1 as stated: a second change of next_freq on a started domain comes at
\* least up_rate_delay_ns (a raise) or down_rate_delay_ns (a lowering) after
\* the previous one, unless limits_changed is set.
C1_RateLimitUnlessLimitsChanged ==
    [][(Changed /\ hist.t_change # -1)
          => (wg_policy.limits_changed \/ GapOK)]_vars

\* C1, amended: a second change of next_freq on a started domain comes at
\* least the applicable delay after the previous one, unless the domain's
\* recorded event flags carry the frame boost flag; limits_changed gives no
\* exception.
C1_RateLimitUnlessFrameBoost ==
    [][(Changed /\ hist.t_change # -1) => (FrameBoosted \/ GapOK)]_vars

\* A second change was committed without the frame boost flag while a raise
\* delay is in force.
C1_Witness ==
    /\ last.committed /\ last.second
    /\ wg_policy.up_rate_delay_ns > 0
    /\ SCHED_CPUFREQ_DEF_FRAMEBOOST \notin wg_policy.flags

C3_NextFreqOnlyByUpdatePath ==
    [][Changed
          => /\ IsCallback \/ last'.op = "limits"
             /\ last'.committed
             /\ ~waltgov_up_down_rate_limit(
                    [wg_policy EXCEPT !.flags = wg_policy'.flags], now,
                    wg_policy'.next_freq)
             /\ wg_policy'.last_freq_update_time = now]_vars

\* limits() changed next_freq on the fast-switch path.
C3_Witness == last.op = "limits" /\ last.committed /\ gov = "started"

\* What a continue-only callback must leave alone.
ContinueLeaves ==
    /\ wg_policy'.next_freq = wg_policy.next_freq
    /\ wg_policy'.last_freq_update_time = wg_policy.last_freq_update_time
    /\ wg_policy'.cached_raw_freq = wg_policy.cached_raw_freq
    /\ policy' = policy
    /\ work' = work

\* The callback recorded the event in its CPU's slot and brought the cycle
\* tracker to the current window.
Recorded ==
    /\ wg_cpu'[last'.cpu].flags = last'.flags
    /\ wg_cpu'[last'.cpu].walt_load.ws = WindowStart(now)
    /\ wg_policy'.last_ws = WindowStart(now)

ContinueCallback ==
    last'.op = "cb" /\ WALT_CPUFREQ_CONTINUE \in last'.flags

\* C4 as stated: a callback with the continue flag changes neither
\* next_freq, last_freq_update_time nor cached_raw_freq, switches no
\* frequency and queues no work, and it records the sample and updates the
\* tracker.
C4_ContinueRecordsOnly ==
    [][ContinueCallback => (ContinueLeaves /\ Recorded)]_vars

\* C4, amended: a callback with the continue flag changes neither next_freq,
\* last_freq_update_time nor cached_raw_freq, switches no frequency and
\* queues no work; it records the sample and updates the tracker unless its
\* flags include WALT_CPUFREQ_PL while the pl tunable is off, in which case
\* it changes nothing at all.
C4_ContinueRecordsUnlessDropped ==
    [][ContinueCallback
          => /\ ContinueLeaves
             /\ last'.dropped <=> update_freq_dropped(tunables, last'.flags)
             /\ ~last'.dropped => Recorded
             /\ last'.dropped => (wg_cpu' = wg_cpu /\ wg_policy' = wg_policy)
      ]_vars

\* A continue-only callback was processed on a domain with a frequency
\* change behind it.
C4_Witness ==
    /\ last.op = "cb" /\ last.flags = {WALT_CPUFREQ_CONTINUE}
    /\ ~last.dropped /\ hist.t_change # -1

\* The gates of the recompute, on the state the callback finds.
Elapsed ==
    now - wg_policy.last_freq_update_time >= wg_policy.min_rate_limit_ns

NotContinue == WALT_CPUFREQ_CONTINUE \notin last'.flags

\* C5 as stated: a callback that is processed (not dropped as a
\* predicted-load event with the pl tunable off) recomputes exactly when it
\* is not continue-only and min_rate_limit_ns has elapsed, limits_changed is
\* set, or the event carries a force flag of a boost source (the boost-update
\* flag, the frame boost flag).
C5_RecomputeIffGateOrBoostUpdate ==
    [][(IsCallback /\ ~update_freq_dropped(tunables', last'.flags))
          => (last'.recomputed
                <=> /\ NotContinue
                    /\ \/ Elapsed
                       \/ wg_policy.limits_changed
                       \/ WALT_CPUFREQ_BOOST_UPDATE \in last'.flags
                       \/ FrameBoosted)]_vars

\* C5, amended: a callback recomputes exactly when it is not dropped (a
\* predicted-load event with the pl tunable off), not continue-only, and
\* min_rate_limit_ns has elapsed, limits_changed is set, or it is a frame
\* boost build and the event carries the frame boost flag; the boost-update
\* flag forces nothing.
C5_RecomputeIffGate ==
    [][IsCallback
          => (last'.recomputed
                <=> /\ ~update_freq_dropped(tunables', last'.flags)
                    /\ NotContinue
                    /\ \/ Elapsed
                       \/ wg_policy.limits_changed
                       \/ FrameBoosted)]_vars

\* The callback run by boost_store came inside the rate-limit window and did
\* not recompute.
C5_Witness ==
    /\ last.op = "boost_store"
    /\ WALT_CPUFREQ_BOOST_UPDATE \in last.flags
    /\ ~last.recomputed
    /\ now - wg_policy.last_freq_update_time < wg_policy.min_rate_limit_ns

\* C6: once limits() has run, the first processed callback without the
\* continue flag recomputes, whatever came in between.
C6_LimitsForceRecompute ==
    [][(hist.lim_pending /\ IsCallback /\ NotContinue
          /\ ~update_freq_dropped(tunables', last'.flags))
          => last'.recomputed]_vars

(***************************************************************************)
(* The selection specification: the aggregation over a two-CPU domain and  *)
(* the selector, applied to sampled slots and tunables drawn from bounded  *)
(* sets.  Frequencies are those of the spec's band example.                *)
(***************************************************************************)
\* Function applications per behaviour.
MaxApply == 1

SelFreqTable == {300000, 500000, 900000, 1200000, 1600000}

SelPolicy ==
    [cpu |-> 0, cpus |-> Cpus, cur |-> 1200000, min |-> 300000,
     max |-> 1600000, cpuinfo_max_freq |-> 1600000,
     freq_table |-> SelFreqTable, fast_switch_enabled |-> TRUE,
     is_min_cluster |-> FALSE]

SelBoosts == {-100, -50, 0, 50, 1000}

\* Filled slots: idle, light, loaded with new tasks, loaded mid-migration,
\* loaded.
SelSlots ==
    { [ZeroCpu EXCEPT !.max = 1024],
      [ZeroCpu EXCEPT !.max = 1024, !.util = 301, !.walt_load.nl = 11],
      [ZeroCpu EXCEPT !.max = 1024, !.util = 950, !.walt_load.nl = 900,
                      !.walt_load.pl = 600],
      [ZeroCpu EXCEPT !.max = 1024, !.util = 950,
                      !.flags = {WALT_CPUFREQ_IC_MIGRATION}],
      [ZeroCpu EXCEPT !.max = 1024, !.util = 950] }

\* user low, user high, kernel low, kernel high of the adaptive band.
SelBands ==
    { <<0, 0, 0, 0>>, <<500000, 1200000, 0, 0>>, <<0, 0, 500000, 1200000>>,
      <<500000, 1200000, 600000, 1000000>> }

SelTunables ==
    { [DefaultTunables EXCEPT !.boost = b, !.hispeed_freq = hf, !.pl = pl,
                              !.adaptive_low_freq = band[1],
                              !.adaptive_high_freq = band[2],
                              !.adaptive_low_freq_kernel = band[3],
                              !.adaptive_high_freq_kernel = band[4]] :
        b \in SelBoosts, hf \in {0, 1200000, 1600000}, pl \in BOOLEAN,
        band \in SelBands }

\* The aggregated pairs handed to the selector: raw 300000, 900000, 1500000.
SelUtils == {150, 450, 750}
SelMax == 1000

\* A started domain whose first callbacks set max and the boost utilizations
\* and whose tracker holds avg_cap.
SelDomain(tun, avg_cap) ==
    LET sized(p) ==
            [p EXCEPT !.hispeed_util =
                          target_util(p, tun, SelPolicy, tun.hispeed_freq),
                      !.rtg_boost_util =
                          target_util(p, tun, SelPolicy, tun.rtg_boost_freq)]
    IN  sized([waltgov_start(ZeroPolicy, tun) EXCEPT
                  !.max = 1024, !.avg_cap = avg_cap,
                  !.last_ws = T0, !.last_cyc_update_time = T0])

InitSel ==
    /\ now = T0
    /\ gov = "started"
    /\ config = [frame_boost |-> FALSE, div0_traps |-> FALSE,
                 ed_boost_pct |-> 0, conservative_pl |-> FALSE, rt_util |-> 0]
    /\ tunables \in SelTunables
    /\ \E avg_cap \in {400, 1000} : wg_policy = SelDomain(tunables, avg_cap)
    /\ wg_cpu \in [Cpus -> SelSlots]
    /\ policy = SelPolicy
    /\ work = [irq |-> FALSE, queued |-> FALSE]
    /\ last = [op |-> "init"]
    /\ hist = HistInit
    /\ stores = 0
    /\ ops = 0
    /\ life = LifeOf(gov, policy)
    /\ pc = NoThreads
    /\ locks = NoLocks

\* The for_each_cpu loop of waltgov_next_freq_shared over the sampled slots.
Aggregate ==
    /\ ops < MaxApply
    /\ ops' = ops + 1
    /\ LET done(a) ==
               /\ wg_policy' = [wg_policy EXCEPT
                                   !.driving_cpu = a.driving_cpu,
                                   !.newtask_flag = a.newtask_flag]
               /\ wg_cpu' = [c \in Cpus |->
                                [wg_cpu[c] EXCEPT !.reasons = a.reasons[c]]]
               /\ last' = [op |-> "aggregate", util |-> a.util,
                           max |-> a.max, tr |-> a.tr, slots |-> wg_cpu]
       IN  done(next_freq_shared_agg(wg_policy, tunables, policy, wg_cpu))
    /\ UNCHANGED <<pc, locks, life, now, gov, config, tunables, policy, work, hist, stores>>

\* get_next_freq on an aggregated pair.
Select(util) ==
    /\ ops < MaxApply
    /\ ops' = ops + 1
    /\ LET done(g) ==
               /\ wg_policy' = g.p
               /\ wg_cpu' = g.cpus
               /\ last' = [op |-> "select", raw_freq |-> g.raw_freq,
                           freq |-> g.freq, ret |-> g.ret,
                           reasons |-> g.cpus[wg_policy.driving_cpu].reasons]
       IN  done(get_next_freq(wg_policy, tunables, policy, wg_cpu, util,
                              SelMax, now, config.rt_util))
    /\ UNCHANGED <<pc, locks, life, now, gov, config, tunables, policy, work, hist, stores>>

NextSel == Aggregate \/ \E util \in SelUtils : Select(util)

SpecSel == InitSel /\ [][NextSel]_vars

(***************************************************************************)
(* The cycle tracker specification: one window at a constant frequency,    *)
(* split into track_cycles calls at arbitrary clock values.                *)
(***************************************************************************)
\* track_cycles calls inside the window, before the one of the recompute.
MaxSplits == 3

\* Clock advances between calls, ns.
SplitSteps == {1, 999999, 1000000, 1999999, 2000000}

\* One cycle unit, ns * kHz.
CycleUnit == NSEC_PER_SEC \div KHZ

InitCyc ==
    /\ now = T0
    /\ gov = "started"
    /\ config = [frame_boost |-> FALSE, div0_traps |-> FALSE,
                 ed_boost_pct |-> 0, conservative_pl |-> FALSE, rt_util |-> 0]
    /\ tunables = DefaultTunables
    /\ wg_policy = [waltgov_start(ZeroPolicy, tunables) EXCEPT
                       !.max = 1024, !.last_ws = T0,
                       !.last_cyc_update_time = T0]
    /\ wg_cpu = [c \in Cpus |-> ZeroCpu]
    /\ policy \in [cpu : {0}, cpus : {{0}}, cur : FreqTable, min : {100},
                   max : {400}, cpuinfo_max_freq : {400},
                   freq_table : {FreqTable},
                   fast_switch_enabled : {FALSE}, is_min_cluster : {FALSE}]
    /\ work = [irq |-> FALSE, queued |-> FALSE]
    /\ last = [op |-> "init"]
    /\ hist = [exact |-> TRUE]
    /\ stores = 0
    /\ ops = 0
    /\ life = LifeOf(gov, policy)
    /\ pc = NoThreads
    /\ locks = NoLocks

\* The elapsed time of a call at `upto` makes a whole number of cycle units.
ExactUpto(upto) ==
    ((upto - wg_policy.last_cyc_update_time) * policy.cur) % CycleUnit = 0

\* A track_cycles call inside the window that leaves the frequency as it is
\* (limits() on the deferred path with policy->cur inside the new limits).
TrackCycles(dt) ==
    /\ ops < MaxSplits
    /\ wg_policy.last_ws = T0
    /\ now + dt < T0 + sched_ravg_window
    /\ now' = now + dt
    /\ ops' = ops + 1
    /\ wg_policy' = waltgov_track_cycles(wg_policy, policy.cur, now')
    /\ hist' = [exact |-> hist.exact /\ ExactUpto(now')]
    /\ last' = [op |-> "track_cycles"]
    /\ UNCHANGED <<pc, locks, life, gov, config, tunables, wg_cpu, policy, work, stores>>

\* The first callback of the next window: waltgov_calc_avg_cap at its start.
WindowRoll ==
    /\ wg_policy.last_ws = T0
    /\ now' = T0 + sched_ravg_window
    /\ wg_policy' = waltgov_calc_avg_cap(wg_policy, policy, WindowStart(now'),
                                         policy.cur)
    /\ hist' = [exact |-> hist.exact /\ ExactUpto(now')]
    /\ last' = [op |-> "calc_avg_cap"]
    /\ UNCHANGED <<pc, locks, life, gov, config, tunables, wg_cpu, policy, work, stores, ops>>

NextCyc == WindowRoll \/ \E dt \in SplitSteps : TrackCycles(dt)

SpecCyc == InitCyc /\ [][NextCyc]_vars

(***************************************************************************)
(* Properties of the selection specification.                              *)
(***************************************************************************)
\* The band the selector should apply according to both sources.
EffLow == get_adaptive_low_freq(tunables)
EffHigh == get_adaptive_high_freq(tunables)

\* C7: with a band configured by either source, a raw frequency below the
\* effective low selects low with reason ADAPTIVE_LOW, one in [low, high]
\* selects high with reason ADAPTIVE_HIGH, one above high passes through.
C7_AdaptiveBandEitherSource ==
    (last.op = "select" /\ EffHigh # 0)
        => /\ last.raw_freq < EffLow
                => /\ last.freq = EffLow
                   /\ last.reasons = {CPUFREQ_REASON_ADAPTIVE_LOW}
           /\ (last.raw_freq >= EffLow /\ last.raw_freq <= EffHigh)
                => /\ last.freq = EffHigh
                   /\ last.reasons = {CPUFREQ_REASON_ADAPTIVE_HIGH}
           /\ last.raw_freq > EffHigh => last.freq = last.raw_freq

\* value * (100 + boost) / 100 in integer arithmetic.
Scaled(value) ==
    IF tunables.boost # 0 THEN (value * (100 + tunables.boost)) \div 100
    ELSE value

\* The hispeed threshold: hispeed_load percent of avg_cap.
HiloadAt == (wg_policy.avg_cap * tunables.hispeed_load) \div 100

\* C8: every CPU's utilization and new-task load enter the driving-CPU
\* comparison and the override rules as value * (100 + boost) / 100
\* (truncated), unscaled when boost is 0.
C8_BoostScalesBeforeOverrides ==
    last.op = "aggregate"
        => \A j \in policy.cpus :
              LET u == Scaled(last.slots[j].util)
                  nl == Scaled(last.slots[j].walt_load.nl)
              IN  /\ last.tr[j].j_util = u
                  /\ last.tr[j].j_nl = nl
                  /\ last.tr[j].agg_util \in {u, last.tr[j].util_in}
                  /\ last.tr[j].agg_util >= u
                  /\ last.tr[j].is_hiload = (u >= HiloadAt)
                  /\ last.tr[j].nwd
                       = (u >= HiloadAt /\ nl >= (u * NL_RATIO) \div 100)

\* An aggregation ran with boost 50 on a CPU with an odd utilization.
C8_Witness ==
    /\ last.op = "aggregate"
    /\ tunables.boost = 50
    /\ \E j \in policy.cpus :
          last.slots[j].util = 301 /\ last.tr[j].j_util = 451

\* The hispeed rule is the only override that can apply to CPU j.
OnlyHispeed(j) ==
    /\ last.tr[j].hispeed
    /\ ~last.tr[j].nwd
    /\ ~tunables.pl
    /\ ~last.slots[j].walt_load.rtgb_active
    /\ ~last.slots[j].walt_load.big_task_rotation
    /\ ~last.slots[j].walt_load.ed_active

\* CPU j is not mid-migration and at or above the hispeed threshold.
Hispeed(j) ==
    /\ WALT_CPUFREQ_IC_MIGRATION \notin last.slots[j].flags
    /\ Scaled(last.slots[j].util) >= HiloadAt

\* C9 as stated: for a CPU that is not mid-migration and at or above
\* hispeed_load percent of avg_cap the hispeed rule fires, and with no
\* other override the aggregated utilization after the CPU is hispeed_util.
C9_HispeedSetsUtil ==
    last.op = "aggregate"
        => \A j \in policy.cpus :
              /\ Hispeed(j) => last.tr[j].hispeed
              /\ OnlyHispeed(j) => last.tr[j].util_out = wg_policy.hispeed_util

\* C9, amended: the hispeed rule fires exactly for a CPU that is not
\* mid-migration and whose boost-scaled utilization is at or above
\* hispeed_load percent of avg_cap (truncated); with no other override the
\* aggregated utilization after the CPU is hispeed_util only if hispeed_util
\* is non-zero and at least the utilization aggregated so far, which
\* otherwise stays.
C9_HispeedRaisesUtil ==
    last.op = "aggregate"
        => \A j \in policy.cpus :
              /\ last.tr[j].hispeed <=> Hispeed(j)
              /\ OnlyHispeed(j)
                   => last.tr[j].util_out
                        = IF /\ wg_policy.hispeed_util # 0
                             /\ wg_policy.hispeed_util >= last.tr[j].agg_util
                          THEN wg_policy.hispeed_util
                          ELSE last.tr[j].agg_util

\* The hispeed rule fired alone on a CPU whose utilization is above a
\* non-zero hispeed_util.
C9_Witness ==
    /\ last.op = "aggregate"
    /\ \E j \in policy.cpus :
          /\ OnlyHispeed(j)
          /\ wg_policy.hispeed_util # 0
          /\ last.tr[j].util_out > wg_policy.hispeed_util

(***************************************************************************)
(* Properties of the cycle tracker specification.                          *)
(***************************************************************************)
Rolled == last.op = "calc_avg_cap"

\* C10 as stated: after a whole window at frequency f the recompute yields
\* avg_cap = freq_to_util(f), however the window was split.
C10_AverageIsFreq ==
    Rolled => wg_policy.avg_cap = freq_to_util(wg_policy, policy, policy.cur)

\* C10, amended: after a whole window at frequency f the recompute yields
\* avg_cap = freq_to_util(f) when the elapsed time of every track_cycles
\* call times f is a whole number of cycle units (as with a single call);
\* each call truncates, so otherwise the average can fall below f, and it is
\* never above f.
C10_AverageIsFreqWhenExact ==
    Rolled
        => /\ hist.exact
                => wg_policy.avg_cap
                     = freq_to_util(wg_policy, policy, policy.cur)
           /\ wg_policy.avg_cap <= freq_to_util(wg_policy, policy, policy.cur)
           /\ wg_policy.curr_cycles = 0
           /\ wg_policy.last_ws = T0 + sched_ravg_window

\* A window split into several exact calls was recomputed.
C10_Witness == Rolled /\ hist.exact /\ ops >= 2

(***************************************************************************)
(* Properties of the governor specification: the tunable stores.           *)
(***************************************************************************)
\* C11: when a write to hispeed_freq (rtg_boost_freq) returns, the domain
\* attached to the tunable set has hispeed_util (rtg_boost_util) equal to
\* target_util of the written frequency for its current max, and nothing
\* else of the domain has changed; the recomputation is one step of the
\* domain, as it runs under update_lock.
C11_StoreRecomputesUtil ==
    [][/\ last'.op = "hispeed_freq_store"
             => wg_policy'
                  = [wg_policy EXCEPT
                        !.hispeed_util =
                            target_util(wg_policy, tunables', policy,
                                        tunables'.hispeed_freq)]
       /\ last'.op = "rtg_boost_freq_store"
             => wg_policy'
                  = [wg_policy EXCEPT
                        !.rtg_boost_util =
                            target_util(wg_policy, tunables', policy,
                                        tunables'.rtg_boost_freq)]]_vars

\* A write to hispeed_freq reached a domain that has seen a sample and
\* changed its hispeed_util.
C11_Witness ==
    /\ last.op = "hispeed_freq_store"
    /\ wg_policy.max = 1024
    /\ tunables.hispeed_freq = 300
    /\ wg_policy.hispeed_util = 614

(***************************************************************************)
(* The window specification: the cycle tracker and the window recompute    *)
(* called with any timestamps by their callers.                            *)
(***************************************************************************)
\* Tracker calls per behaviour.
MaxCalls == 3

\* Timestamps handed to waltgov_track_cycles, as offsets from T0: inside the
\* first window, at and beyond its end, in later windows.
TrackTimes ==
    { T0 + 1000000, T0 + 3000000, T0 + sched_ravg_window, T0 + 5000000,
      T0 + 9000000 }

\* Window starts handed to waltgov_calc_avg_cap: one window back, the window
\* of the initial state, halfway into it, one, two and three windows on.
WindowStarts ==
    { T0 - sched_ravg_window, T0, T0 + 2000000, T0 + sched_ravg_window,
      T0 + 2 * sched_ravg_window, T0 + 3 * sched_ravg_window }

\* A domain mid-window: the tracker has seen the window that starts at T0.
InitWin ==
    /\ now = T0
    /\ gov = "started"
    /\ config = [frame_boost |-> FALSE, div0_traps |-> FALSE,
                 ed_boost_pct |-> 0, conservative_pl |-> FALSE, rt_util |-> 0]
    /\ tunables = DefaultTunables
    /\ \E cyc \in {0, 300} :
          wg_policy = [waltgov_start(ZeroPolicy, DefaultTunables) EXCEPT
                          !.max = 1024, !.last_ws = T0,
                          !.last_cyc_update_time = T0, !.curr_cycles = cyc,
                          !.avg_cap = 256]
    /\ wg_cpu = [c \in Cpus |-> ZeroCpu]
    /\ policy \in [cpu : {0}, cpus : {{0}}, cur : {100, 150}, min : {100},
                   max : {400}, cpuinfo_max_freq : {400},
                   freq_table : {FreqTable},
                   fast_switch_enabled : {TRUE}, is_min_cluster : {FALSE}]
    /\ work = [irq |-> FALSE, queued |-> FALSE]
    /\ last = [op |-> "init", arg |-> 0, before |-> ZeroPolicy]
    /\ hist = HistInit
    /\ stores = 0
    /\ ops = 0
    /\ life = LifeOf(gov, policy)
    /\ pc = NoThreads
    /\ locks = NoLocks

\* waltgov_track_cycles(wg_policy, policy->cur, upto) as waltgov_fast_switch,
\* waltgov_work and waltgov_limits call it.
TrackAt(upto) ==
    /\ ops < MaxCalls
    /\ ~wg_policy.bug
    /\ ops' = ops + 1
    /\ wg_policy' = waltgov_track_cycles(wg_policy, policy.cur, upto)
    /\ last' = [op |-> "track_cycles", arg |-> upto, before |-> wg_policy]
    /\ UNCHANGED <<pc, locks, life, now, gov, config, tunables, wg_cpu, policy, work, hist,
                   stores>>

\* waltgov_calc_avg_cap(wg_policy, curr_ws, policy->cur) as
\* waltgov_update_freq calls it.
Recompute(curr_ws) ==
    /\ ops < MaxCalls
    /\ ~wg_policy.bug
    /\ ops' = ops + 1
    /\ wg_policy' = waltgov_calc_avg_cap(wg_policy, policy, curr_ws,
                                         policy.cur)
    /\ last' = [op |-> "calc_avg_cap", arg |-> curr_ws,
                before |-> wg_policy]
    /\ UNCHANGED <<pc, locks, life, now, gov, config, tunables, wg_cpu, policy, work, hist,
                   stores>>

NextWin ==
    \/ \E upto \in TrackTimes : TrackAt(upto)
    \/ \E curr_ws \in WindowStarts : Recompute(curr_ws)

SpecWin == InitWin /\ [][NextWin]_vars

(***************************************************************************)
(* Properties of the window specification.                                 *)
(***************************************************************************)
\* The last call was the window recompute.
Recomputed == last.op = "calc_avg_cap"

\* C12: the window recompute called with a window start equal to last_ws
\* changes nothing; called with an older one it hits the BUG_ON and changes
\* nothing else; so last_ws never decreases, and avg_cap changes only in a
\* call in which last_ws strictly increases.
C12_RecomputeOncePerWindow ==
    /\ (Recomputed /\ last.arg = last.before.last_ws)
          => wg_policy = last.before
    /\ (Recomputed /\ last.arg < last.before.last_ws)
          => wg_policy = [last.before EXCEPT !.bug = TRUE]
    /\ wg_policy.bug <=> (Recomputed /\ last.arg < last.before.last_ws)
    /\ last.op # "init"
          => /\ wg_policy.last_ws >= last.before.last_ws
             /\ wg_policy.avg_cap # last.before.avg_cap
                   => wg_policy.last_ws > last.before.last_ws

\* A second recompute for a window already recomputed came with cycles
\* accumulated since.
C12_Witness ==
    /\ Recomputed
    /\ last.arg = last.before.last_ws
    /\ last.before.last_ws > T0
    /\ last.before.curr_cycles > 0

\* The cycles of the time from the last tracker update to the window start
\* of the call, at the current frequency.
CyclesToBoundary ==
    ((last.arg - last.before.last_cyc_update_time) * policy.cur)
        \div (NSEC_PER_SEC \div KHZ)

\* The window length in cycle units.
WindowUnits == sched_ravg_window \div (NSEC_PER_SEC \div KHZ)

\* C13: a recompute for a window start more than one window after last_ws
\* sets avg_cap from the current frequency alone, curr_cycles to 0 and both
\* last_cyc_update_time and last_ws to the new window start; one for a later
\* window start at most one window on sets avg_cap from the cycles
\* accumulated up to that window start (the tracker's last update not lying
\* after it) divided by the window length, curr_cycles to 0 and last_ws to
\* the new window start.
C13_SkippedWindowsDiscardCycles ==
    /\ (Recomputed /\ last.arg > last.before.last_ws + sched_ravg_window)
          => wg_policy
               = [last.before EXCEPT
                     !.avg_cap = freq_to_util(last.before, policy, policy.cur),
                     !.curr_cycles = 0,
                     !.last_cyc_update_time = last.arg,
                     !.last_ws = last.arg]
    /\ (/\ Recomputed
        /\ last.arg > last.before.last_ws
        /\ last.arg <= last.before.last_ws + sched_ravg_window
        /\ last.arg >= last.before.last_cyc_update_time)
          => wg_policy
               = [last.before EXCEPT
                     !.avg_cap =
                         freq_to_util(last.before, policy,
                                      (last.before.curr_cycles
                                           + CyclesToBoundary)
                                          \div WindowUnits),
                     !.curr_cycles = 0,
                     !.last_cyc_update_time = last.arg,
                     !.last_ws = last.arg]

\* A recompute two windows on discarded accumulated cycles.
C13_Witness ==
    /\ Recomputed
    /\ last.arg = last.before.last_ws + 2 * sched_ravg_window
    /\ last.before.curr_cycles > 0
    /\ wg_policy.curr_cycles = 0

\* The end of the window the tracker was in before the last call.
WindowEndBefore == last.before.last_ws + sched_ravg_window

\* C14: last_cyc_update_time never lies beyond the end of the current window
\* (last_ws + sched_ravg_window); a track_cycles call with any timestamp
\* moves it to the timestamp or to the end of the window, whichever is
\* earlier, and adds the cycles of the time up to there only.
C14_TrackedTimeWithinWindow ==
    /\ wg_policy.last_cyc_update_time
          <= wg_policy.last_ws + sched_ravg_window
    /\ last.op = "track_cycles"
          => /\ wg_policy.last_cyc_update_time
                   = Min(last.arg, WindowEndBefore)
             /\ wg_policy.last_cyc_update_time
                   >= last.before.last_cyc_update_time
                   => wg_policy.curr_cycles
                        = last.before.curr_cycles
                            + ((wg_policy.last_cyc_update_time
                                  - last.before.last_cyc_update_time)
                                 * policy.cur) \div (NSEC_PER_SEC \div KHZ)

\* track_cycles was called with a timestamp beyond the end of the window
\* and stopped at the end.
C14_Witness ==
    /\ last.op = "track_cycles"
    /\ last.arg > WindowEndBefore
    /\ wg_policy.last_cyc_update_time = WindowEndBefore
    /\ wg_policy.curr_cycles > last.before.curr_cycles

(***************************************************************************)
(* The override specification: repeated aggregation over a two-CPU domain  *)
(* whose slots carry every override condition, with and without the early *)
(* detection boost (sysctl_ed_boost_pct).                                  *)
(***************************************************************************)
\* Aggregations per behaviour.
MaxAdjust == 2

\* Filled slots: idle, light, loaded, loaded with early detection, with an
\* active related thread group, with new tasks and early detection, with big
\* task rotation and early detection, with new tasks mid-migration.
AdjSlots ==
    { [ZeroCpu EXCEPT !.max = 1024],
      [ZeroCpu EXCEPT !.max = 1024, !.util = 950, !.walt_load.nl = 900,
                      !.flags = {WALT_CPUFREQ_IC_MIGRATION}],
      [ZeroCpu EXCEPT !.max = 1024, !.util = 301],
      [ZeroCpu EXCEPT !.max = 1024, !.util = 950, !.walt_load.pl = 990],
      [ZeroCpu EXCEPT !.max = 1024, !.util = 500,
                      !.walt_load.ed_active = TRUE, !.walt_load.pl = 600],
      [ZeroCpu EXCEPT !.max = 1024, !.util = 500,
                      !.walt_load.rtgb_active = TRUE,
                      !.walt_load.ed_active = TRUE],
      [ZeroCpu EXCEPT !.max = 1024, !.util = 500, !.walt_load.nl = 450,
                      !.walt_load.ed_active = TRUE],
      [ZeroCpu EXCEPT !.max = 1024, !.util = 700,
                      !.walt_load.big_task_rotation = TRUE,
                      !.walt_load.ed_active = TRUE] }

AdjTunables ==
    { [DefaultTunables EXCEPT !.hispeed_freq = hf, !.rtg_boost_freq = 1200000,
                              !.pl = pl] :
        hf \in {0, 1200000}, pl \in BOOLEAN }

InitAdj ==
    /\ now = T0
    /\ gov = "started"
    /\ config \in [frame_boost : {FALSE}, div0_traps : {FALSE},
                   ed_boost_pct : {0, 10}, conservative_pl : {FALSE},
                   rt_util : {0}]
    /\ tunables \in AdjTunables
    /\ \E avg_cap \in {400, 1000} : wg_policy = SelDomain(tunables, avg_cap)
    /\ wg_cpu \in [Cpus -> AdjSlots]
    /\ policy = SelPolicy
    /\ work = [irq |-> FALSE, queued |-> FALSE]
    /\ last = [op |-> "init"]
    /\ hist = HistInit
    /\ stores = 0
    /\ ops = 0
    /\ life = LifeOf(gov, policy)
    /\ pc = NoThreads
    /\ locks = NoLocks

\* The for_each_cpu loop of waltgov_next_freq_shared over the slots as the
\* previous aggregation left them.
Adjust ==
    /\ ops < MaxAdjust
    /\ ops' = ops + 1
    /\ LET done(a) ==
               /\ wg_policy' = [wg_policy EXCEPT
                                   !.driving_cpu = a.driving_cpu,
                                   !.newtask_flag = a.newtask_flag]
               /\ wg_cpu' = [c \in Cpus |->
                                [wg_cpu[c] EXCEPT !.reasons = a.reasons[c]]]
               /\ last' = [op |-> "adjust", util |-> a.util, max |-> a.max,
                           tr |-> a.tr, slots |-> wg_cpu]
       IN  done(next_freq_shared_agg(wg_policy, tunables, policy, wg_cpu))
    /\ UNCHANGED <<pc, locks, life, now, gov, config, tunables, policy, work, hist, stores>>

\* A sysfs write of pl between two aggregations.
AdjPlStore(v) ==
    /\ ops < MaxAdjust
    /\ ops' = ops + 1
    /\ tunables' = pl_store(tunables, wg_policy, v).tun
    /\ last' = [op |-> "pl_store"]
    /\ UNCHANGED <<pc, locks, life, now, gov, config, wg_policy, wg_cpu, policy, work, hist,
                   stores>>

NextAdj == Adjust \/ \E v \in BOOLEAN : AdjPlStore(v)

SpecAdj == InitAdj /\ [][NextAdj]_vars

(***************************************************************************)
(* Properties of the override specification.                               *)
(***************************************************************************)
\* The reasons recorded for the driving CPU.
DrivingReasons == wg_cpu[wg_policy.driving_cpu].reasons

\* The early detection boost is employed for CPU j.
EmployEd(j) == wg_cpu[j].walt_load.ed_active /\ config.ed_boost_pct # 0

MaxLife == 6
\* Tunable writes per behaviour.
MaxLifeStores == 2

LifeAlive == ops < MaxLife /\ ~life.bug /\ ~life.fault

\* The record kept of the last operation: its name, what it returned, its
\* argument (the failing step of init, the CPU of a callback or an API call,
\* the tunable of a store, what stop found pending on the deferred path).
LifeDid(op, ret, arg) ==
    [op |-> op, ret |-> ret, arg |-> arg, band |-> <<0, 0>>]

\* History for the properties: whether waltgov_exit has run, the tunables it
\* found, the policy->cpu it ran for, and whether its waltgov_tunables_save
\* had a cache entry to write.
LifeHistInit ==
    [exited |-> FALSE, exit_tun |-> ZeroTunables, exit_cpu |-> 0,
     saved |-> FALSE]

\* The value a sysfs write gives each tunable (none is the default).
StoredValue ==
    [up_rate_limit_us |-> 2000, down_rate_limit_us |-> 4000,
     hispeed_load |-> 80, hispeed_freq |-> 300, rtg_boost_freq |-> 200,
     adaptive_low_freq |-> 200, adaptive_high_freq |-> 300,
     target_load_thresh |-> 512, target_load_shift |-> 2,
     pl |-> TRUE, boost |-> 50]

InitLife ==
    /\ now = T0
    /\ gov = "none"
    /\ config = [frame_boost |-> FALSE, div0_traps |-> FALSE,
                 ed_boost_pct |-> 0, conservative_pl |-> FALSE, rt_util |-> 0]
    /\ tunables = ZeroTunables
    /\ wg_policy = ZeroPolicy
    /\ wg_cpu = [c \in Cpus |-> ZeroCpu]
    /\ policy \in [cpu : {0}, cpus : {Cpus}, related_cpus : {Cpus},
                   cur : {100}, min : {100}, max : {400},
                   cpuinfo_max_freq : {400}, freq_table : {FreqTable},
                   fast_switch_possible : BOOLEAN,
                   fast_switch_enabled : {FALSE}, is_min_cluster : {FALSE}]
    /\ work = NoWork
    /\ last = LifeDid("boot", "0", "none")
    /\ hist = LifeHistInit
    /\ stores = 0
    /\ ops = 0
    /\ life = NoLife
    /\ pc = NoThreads
    /\ locks = NoLocks

\* The cpufreq core calls the governor's init for the policy; while no
\* governor is attached, CPU hotplug may have changed policy->cpu since the
\* last time.
LifeInit(c, fail, fs_ok) ==
    /\ LifeAlive
    /\ c \in policy.related_cpus
    /\ LET pol == IF life.governor_data THEN policy
                  ELSE [policy EXCEPT !.cpu = c]
           done(r) ==
               /\ life' = r.life
               /\ policy' = r.pol
               /\ tunables' = IF r.life.tunables_alloc THEN r.tun
                              ELSE ZeroTunables
               /\ wg_policy' = r.p
               /\ gov' = IF r.ret = "0" THEN "initialized" ELSE gov
               /\ last' = LifeDid("init", r.ret, fail)
       IN  done(waltgov_init(life, pol, tunables, wg_policy, fail, fs_ok))
    /\ ops' = ops + 1
    /\ UNCHANGED <<pc, locks, now, config, wg_cpu, work, hist, stores>>

LifeStart ==
    /\ LifeAlive
    /\ gov \in {"initialized", "stopped"}
    /\ gov' = "started"
    /\ wg_policy' = waltgov_start(wg_policy, tunables)
    /\ wg_cpu' = [c \in Cpus |-> IF c \in policy.cpus THEN ZeroCpu
                                  ELSE wg_cpu[c]]
    /\ life' = waltgov_start_life(life, policy)
    /\ last' = LifeDid("start", "0", "none")
    /\ ops' = ops + 1
    /\ UNCHANGED <<pc, locks, now, config, tunables, policy, work, hist, stores>>

\* Code of the domain runs: on a freed domain it uses freed memory.
RunsOnDomain(lf) == [lf EXCEPT !.uaf = @ \/ lf.domain # "live"]

\* The scheduler runs the registered callback of cpu; commit says whether
\* it commits a new frequency, which on the deferred path queues the irq
\* work.
LifeCallback(cpu, commit) ==
    /\ LifeAlive
    /\ cpu \in life.cb
    /\ life' = RunsOnDomain(life)
    /\ work' = IF commit /\ ~policy.fast_switch_enabled
               THEN waltgov_deferred_update(work) ELSE work
    /\ last' = LifeDid("cb", "0", cpu)
    /\ ops' = ops + 1
    /\ UNCHANGED <<pc, locks, now, gov, config, tunables, wg_policy, wg_cpu, policy,
                   hist, stores>>

\* waltgov_irq_work: kthread_queue_work.
LifeIrqWork ==
    /\ LifeAlive
    /\ work.irq
    /\ life' = RunsOnDomain(life)
    /\ work' = [irq |-> FALSE, queued |-> TRUE]
    /\ last' = LifeDid("irq_work", "0", "none")
    /\ ops' = ops + 1
    /\ UNCHANGED <<pc, locks, now, gov, config, tunables, wg_policy, wg_cpu, policy,
                   hist, stores>>

\* waltgov_work on the kthread.
LifeWork ==
    /\ LifeAlive
    /\ work.queued
    /\ life' = RunsOnDomain(life)
    /\ LET done(r) == wg_policy' = r.p /\ policy' = r.pol
       IN  done(waltgov_work(wg_policy, policy, now))
    /\ work' = [work EXCEPT !.queued = FALSE]
    /\ last' = LifeDid("work", "0", "none")
    /\ ops' = ops + 1
    /\ UNCHANGED <<pc, locks, now, gov, config, tunables, wg_cpu, hist, stores>>

\* The cpufreq core stops the governor.
LifeStop ==
    /\ LifeAlive
    /\ gov = "started"
    /\ gov' = "stopped"
    /\ LET done(r) == work' = r.wk /\ life' = r.life
       IN  done(waltgov_stop(life, work, policy))
    /\ last' = LifeDid("stop", "0", work)
    /\ ops' = ops + 1
    /\ UNCHANGED <<pc, locks, now, config, tunables, wg_policy, wg_cpu, policy, hist,
                   stores>>

\* The cpufreq core detaches the governor, which it does with the governor
\* stopped; alloc_ok says whether the kzalloc of waltgov_tunables_save
\* succeeds.
LifeExit(alloc_ok) ==
    /\ LifeAlive
    /\ gov \in {"initialized", "stopped"}
    /\ gov' = "none"
    /\ LET done(r) ==
               /\ life' = r.life
               /\ policy' = r.pol
               /\ hist' = [exited |-> TRUE, exit_tun |-> tunables,
                           exit_cpu |-> policy.cpu,
                           saved |-> r.life.cached_tunables[policy.cpu] # 0]
       IN  done(waltgov_exit(life, policy, tunables, wg_policy, alloc_ok))
    /\ tunables' = ZeroTunables
    /\ last' = LifeDid("exit", "0", "none")
    /\ ops' = ops + 1
    /\ UNCHANGED <<pc, locks, now, config, wg_policy, wg_cpu, work, stores>>

\* A write to the sysfs attribute name of the attached governor.
LifeStore(name) ==
    /\ LifeAlive
    /\ life.kobject
    /\ stores < MaxLifeStores
    /\ tunables[name] # StoredValue[name]
    /\ tunables' = [tunables EXCEPT ![name] = StoredValue[name]]
    /\ stores' = stores + 1
    /\ last' = LifeDid("store", "0", name)
    /\ ops' = ops + 1
    /\ UNCHANGED <<pc, locks, life, now, gov, config, wg_policy, wg_cpu, policy, work,
                   hist>>

\* The first CPU number that is not a possible CPU.
NoCpu == Cardinality(Cpus)

\* What wg_cpu->wg_policy of the per-CPU slot of cpu is: "NULL" before the
\* first waltgov_start on the CPU, "live", "freed" once the domain it points
\* to is freed, "wild" for a CPU number that has no per-CPU slot.
PtrOf(lf, cpu) == IF cpu \in Cpus THEN lf.wg_policy_ptr[cpu] ELSE "wild"

\* The outcome of a call that stops with a kernel fault.
ApiFault(lf, tun) ==
    [life |-> [lf EXCEPT !.fault = TRUE], tun |-> tun, ret |-> "fault"]

\* cpufreq_walt_set_adaptive_freq(cpu, low, high) as a caller meets it.  The
\* declarations read wg_cpu->wg_policy and wg_policy->policy before cpu is
\* tested: a NULL wg_policy faults; a read through a wild or freed pointer
\* is undefined, and faults (ub) or yields some value.
set_adaptive_freq_call(lf, tun, p, pol, cpu, low, high, ub) ==
    LET ptr == PtrOf(lf, cpu)
        set(r) == [life |-> [lf EXCEPT !.api_uaf = @ \/ ptr = "freed"],
                   tun |-> IF ptr = "freed" THEN tun ELSE r.tun,
                   ret |-> IF pol.min <= low /\ pol.max >= high THEN "0"
                           ELSE "-EINVAL"]
    IN  IF ptr = "NULL" THEN ApiFault(lf, tun)
        ELSE IF ptr \in {"wild", "freed"} /\ ub THEN ApiFault(lf, tun)
        ELSE IF cpu \notin Cpus
        THEN [life |-> lf, tun |-> tun, ret |-> "-EFAULT"]
        ELSE set(cpufreq_walt_set_adaptive_freq(tun, p, pol, low, high))

\* cpufreq_walt_get_adaptive_freq(cpu, &low, &high) with both pointers set:
\* wg_cpu->wg_policy is read before cpu is tested and wg_policy->tunables is
\* read after it with no test of wg_policy.
get_adaptive_freq_call(lf, tun, p, pol, cpu, ub) ==
    LET ptr == PtrOf(lf, cpu)
    IN  IF ptr = "wild"
        THEN IF ub THEN ApiFault(lf, tun)
             ELSE [life |-> lf, tun |-> tun, ret |-> "-EFAULT"]
        ELSE IF ptr = "NULL" \/ (ptr = "freed" /\ ub) THEN ApiFault(lf, tun)
        ELSE [life |-> [lf EXCEPT !.api_uaf = @ \/ ptr = "freed"],
              tun |-> tun, ret |-> "0"]

\* cpufreq_walt_reset_adaptive_freq(cpu)
reset_adaptive_freq_call(lf, tun, p, pol, cpu, ub) ==
    LET ptr == PtrOf(lf, cpu)
        reset(r) == [life |-> [lf EXCEPT !.api_uaf = @ \/ ptr = "freed"],
                     tun |-> IF ptr = "freed" THEN tun ELSE r.tun,
                     ret |-> "0"]
    IN  IF ptr = "wild"
        THEN IF ub THEN ApiFault(lf, tun)
             ELSE [life |-> lf, tun |-> tun, ret |-> "-EFAULT"]
        ELSE IF ptr = "NULL" \/ (ptr = "freed" /\ ub) THEN ApiFault(lf, tun)
        ELSE reset(cpufreq_walt_reset_adaptive_freq(tun, p))

\* Another kernel subsystem calls the adaptive-frequency interface for cpu;
\* it can do so at any time.
LifeAdaptiveDone(call, cpu, band, r) ==
    /\ life' = r.life
    /\ tunables' = r.tun
    /\ last' = [op |-> call, ret |-> r.ret, arg |-> cpu, band |-> band]

LifeSetAdaptiveFreq(cpu, band, ub) ==
    /\ LifeAlive
    /\ stores < MaxLifeStores
    /\ LifeAdaptiveDone("set_adaptive_freq", cpu, band,
                        set_adaptive_freq_call(life, tunables, wg_policy,
                                               policy, cpu, band[1], band[2],
                                               ub))
    /\ stores' = stores + 1
    /\ ops' = ops + 1
    /\ UNCHANGED <<pc, locks, now, gov, config, wg_policy, wg_cpu, policy, work, hist>>

LifeGetAdaptiveFreq(cpu, ub) ==
    /\ LifeAlive
    /\ stores < MaxLifeStores
    /\ LifeAdaptiveDone("get_adaptive_freq", cpu, <<0, 0>>,
                        get_adaptive_freq_call(life, tunables, wg_policy,
                                               policy, cpu, ub))
    /\ stores' = stores + 1
    /\ ops' = ops + 1
    /\ UNCHANGED <<pc, locks, now, gov, config, wg_policy, wg_cpu, policy, work, hist>>

LifeResetAdaptiveFreq(cpu, ub) ==
    /\ LifeAlive
    /\ stores < MaxLifeStores
    /\ LifeAdaptiveDone("reset_adaptive_freq", cpu, <<0, 0>>,
                        reset_adaptive_freq_call(life, tunables, wg_policy,
                                                 policy, cpu, ub))
    /\ stores' = stores + 1
    /\ ops' = ops + 1
    /\ UNCHANGED <<pc, locks, now, gov, config, wg_policy, wg_cpu, policy, work, hist>>

\* The bands handed to cpufreq_walt_set_adaptive_freq: inside the policy
\* limits, below the minimum, above the maximum.
LifeBands == {<<200, 300>>, <<50, 300>>, <<200, 500>>}

NextLife ==
    \/ \E c \in Cpus, fail \in InitSteps \cup {"none"}, fs_ok \in BOOLEAN :
           LifeInit(c, fail, fs_ok)
    \/ LifeStart
    \/ \E cpu \in Cpus, commit \in BOOLEAN : LifeCallback(cpu, commit)
    \/ LifeIrqWork
    \/ LifeWork
    \/ LifeStop
    \/ \E alloc_ok \in BOOLEAN : LifeExit(alloc_ok)
    \/ \E name \in DOMAIN StoredValue : LifeStore(name)
    \/ \E cpu \in Cpus \cup {NoCpu}, band \in LifeBands, ub \in BOOLEAN :
           LifeSetAdaptiveFreq(cpu, band, ub)
    \/ \E cpu \in Cpus \cup {NoCpu}, ub \in BOOLEAN :
           LifeGetAdaptiveFreq(cpu, ub)
    \/ \E cpu \in Cpus \cup {NoCpu}, ub \in BOOLEAN :
           LifeResetAdaptiveFreq(cpu, ub)

SpecLife == InitLife /\ [][NextLife]_vars

(***************************************************************************)
(* Properties of the lifecycle specification.                              *)
(***************************************************************************)
\* C16: when waltgov_stop has returned, no update callback of the policy is
\* registered, no irq work is pending and no kthread work is queued, and it
\* stays so while the governor is not started; the domain is freed (by
\* waltgov_exit, or by a failed waltgov_init) only in such a state, so that
\* no callback, irq work or kthread work ever runs on a freed domain.
C16_StopLeavesNothingPending ==
    /\ last.op = "stop" => life.cb = {} /\ work = NoWork
    /\ gov # "started" => life.cb = {} /\ work = NoWork
    /\ life.domain # "live" => life.cb = {} /\ work = NoWork
    /\ ~life.uaf

\* waltgov_stop has run on the deferred path with the irq work pending.
C16_Witness ==
    /\ last.op = "stop"
    /\ ~policy.fast_switch_enabled
    /\ last.arg.irq
    /\ work = NoWork

\* C17: waltgov_init on a policy that has governor data returns -EBUSY and
\* changes nothing; waltgov_exit leaves policy->governor_data NULL, and an
\* init on a policy without governor data in which no step fails succeeds
\* and sets it; update callbacks are registered exactly while the governor
\* is started, for the CPUs of the policy.
C17_InitExitStartStopPairing ==
    [][/\ (last'.op = "init" /\ life.governor_data)
           => /\ last'.ret = "-EBUSY"
              /\ UNCHANGED <<life, gov, tunables, wg_policy, wg_cpu, policy,
                             work>>
       /\ (last'.op = "exit") => ~life'.governor_data
       /\ (last'.op = "init" /\ ~life.governor_data /\ last'.arg = "none"
              /\ ~life'.bug)
           => last'.ret = "0" /\ life'.governor_data
       /\ life'.cb = (IF gov' = "started" THEN policy'.cpus ELSE {})
       /\ life'.governor_data <=> gov' # "none"]_vars

\* A second waltgov_init on an attached policy, after an earlier detach and
\* re-attach.
C17_Witness ==
    /\ hist.exited
    /\ last.op = "init"
    /\ last.ret = "-EBUSY"
    /\ life.governor_data

\* The call that undoes a setup call of waltgov_init.
UndoOf(call) ==
    CASE call = "cpufreq_enable_fast_switch" -> "cpufreq_disable_fast_switch"
      [] call = "waltgov_policy_alloc" -> "waltgov_policy_free"
      [] call = "waltgov_kthread_create" -> "waltgov_kthread_stop"
      [] call = "kzalloc(tunables)" -> "kfree(tunables)"

\* The undo calls of a sequence of setup calls, last one first.
Unwound(setup) ==
    [i \in 1..Len(setup) |-> UndoOf(setup[Len(setup) + 1 - i])]

\* The last operation was a waltgov_init in which a step failed.
InitFailed == last.op = "init" /\ last.ret \notin {"0", "-EBUSY", "BUG"}

\* C18: a waltgov_init in which the domain allocation, the kthread creation,
\* the tunables allocation or the sysfs registration fails returns that
\* step's error, has undone the setup calls made before it in reverse order
\* (tunables freed, kthread stopped, domain freed, fast switch disabled) and
\* leaves nothing behind: policy->governor_data is NULL, no kthread, no live
\* domain, no tunables, no sysfs object, fast switching disabled.  An init
\* that returns 0 has made every setup call and undone none.
C18_InitFailureUnwinds ==
    /\ InitFailed =>
          /\ last.arg \in InitSteps
          /\ last.ret = InitError(last.arg)
          /\ life.undo = Unwound(life.setup)
          /\ ~life.governor_data
          /\ ~life.thread
          /\ life.domain # "live"
          /\ ~life.tunables_alloc
          /\ ~life.kobject
          /\ ~policy.fast_switch_enabled
          /\ gov = "none"
    /\ (last.op = "init" /\ last.ret = "0") =>
          /\ life.setup = <<"cpufreq_enable_fast_switch",
                            "waltgov_policy_alloc", "waltgov_kthread_create",
                            "kzalloc(tunables)", "kobject_init_and_add">>
          /\ life.undo = <<>>
          /\ life.governor_data /\ life.domain = "live"
          /\ life.tunables_alloc /\ life.kobject
          /\ life.thread = ~policy.fast_switch_enabled
    /\ (last.op = "init" /\ last.arg \in {"waltgov_policy_alloc",
                                          "kzalloc(tunables)",
                                          "kobject_init_and_add"}
          /\ last.ret # "-EBUSY" /\ ~life.bug) => InitFailed

\* The sysfs registration failed on the deferred path, after every other
\* step had succeeded: all four undo calls were made.
C18_Witness ==
    /\ InitFailed
    /\ last.arg = "kobject_init_and_add"
    /\ life.undo = <<"kfree(tunables)", "waltgov_kthread_stop",
                     "waltgov_policy_free", "cpufreq_disable_fast_switch">>
    /\ ~policy.fast_switch_possible

\* The cached tunables of cpu in lf (ZeroTunables when there are none).
CachedFor(lf, cpu) ==
    IF lf.cached_tunables[cpu] = 0 THEN ZeroTunables
    ELSE lf.cache[lf.cached_tunables[cpu]]

\* The tunables are cached for every CPU of the policy with the values tun.
SavedForPolicy(lf, pol, tun) ==
    \A c \in pol.related_cpus :
        lf.cached_tunables[c] # 0 /\ CachedFor(lf, c) = tun

CacheChanged ==
    life'.cache # life.cache \/ life'.cached_tunables # life.cached_tunables

\* C19 as stated: every waltgov_exit saves the tunables for every CPU of the
\* policy, and every successful init after an exit starts with the values
\* the last exit found; the cache changes at exit only.
C19_SavedAtExitRestoredAtInit ==
    [][/\ last'.op = "exit" => SavedForPolicy(life', policy, tunables)
       /\ (last'.op = "init" /\ last'.ret = "0" /\ hist.exited)
              => tunables' = hist.exit_tun
       /\ CacheChanged => last'.op = "exit"]_vars

\* C19, amended: waltgov_exit saves the tunables (rate limits, hispeed load
\* and frequency, rtg boost frequency, pl, boost, user and kernel adaptive
\* low and high frequencies, target-load threshold and shift) for every CPU
\* of the policy unless no cache entry exists yet and allocating one fails,
\* in which case the cache is left as it was; a successful waltgov_init
\* starts with the cached values of policy->cpu, which are exactly the values
\* the last exit found if that exit saved, and with the defaults if nothing
\* is cached; the cache changes at exit only.
C19_SavedUnlessAllocFails ==
    [][/\ last'.op = "exit" =>
             IF hist'.saved THEN SavedForPolicy(life', policy, tunables)
             ELSE ~CacheChanged
       /\ (last'.op = "init" /\ last'.ret = "0") =>
             /\ tunables' = IF life.cached_tunables[policy'.cpu] = 0
                            THEN DefaultTunables
                            ELSE CachedFor(life, policy'.cpu)
             /\ (hist.exited /\ hist.saved) => tunables' = hist.exit_tun
             /\ (hist.exited /\ ~hist.saved) => tunables' = DefaultTunables
       /\ CacheChanged => last'.op = "exit"]_vars

\* A policy re-attached on its other CPU starts with the tunables, not the
\* defaults, that the exit on the first CPU saved.
C19_Witness ==
    /\ hist.exited /\ hist.saved
    /\ last.op = "init" /\ last.ret = "0"
    /\ policy.cpu # hist.exit_cpu
    /\ tunables = hist.exit_tun
    /\ tunables # DefaultTunables

\* The calls of the adaptive-frequency interface and their error codes.
ApiOps == {"set_adaptive_freq", "get_adaptive_freq", "reset_adaptive_freq"}

ApiErrors == {"-EINVAL", "-EFAULT"}

\* cpu does not exist, or its per-CPU slot points to no live domain.
NoDomain(lf, cpu) == PtrOf(lf, cpu) # "live"

\* The last call was a set with a band outside the policy limits.
OutOfRange ==
    /\ last'.op = "set_adaptive_freq"
    /\ last'.band[1] < policy.min \/ last'.band[2] > policy.max

\* C20: cpufreq_walt_set_adaptive_freq with adaptive_low_freq below the
\* policy minimum or adaptive_high_freq above the policy maximum returns an
\* error and leaves both kernel adaptive bounds as they were; set, get and
\* reset on a CPU that does not exist or has no attached domain return an
\* error and change nothing, without a fault.
C20_ApiRejectsWithoutSideEffect ==
    [][last'.op \in ApiOps =>
          /\ (OutOfRange /\ ~NoDomain(life, last'.arg))
                 => /\ last'.ret = "-EINVAL"
                    /\ tunables' = tunables
                    /\ life' = life
          /\ NoDomain(life, last'.arg)
                 => /\ last'.ret \in ApiErrors
                    /\ tunables' = tunables
                    /\ life' = life]_vars

\* The part of C20 the code keeps: on a CPU whose slot points to a live
\* domain, a set outside the policy limits returns -EINVAL and changes
\* nothing, and the other calls return 0.
C20_OutOfRangeRejected ==
    [][(last'.op \in ApiOps /\ ~NoDomain(life, last'.arg)) =>
          /\ life' = life
          /\ IF OutOfRange
             THEN last'.ret = "-EINVAL" /\ tunables' = tunables
             ELSE last'.ret = "0"]_vars

\* A call for a possible CPU on which the governor was never started ends in
\* a fault.
C20_FaultReached ==
    /\ last.op \in ApiOps
    /\ last.arg \in Cpus
    /\ last.ret = "fault"
    /\ life.fault

(***************************************************************************)
(* The sysfs store handlers on the text written to them.  A buffer is a    *)
(* sequence of characters; the parsers are the kernel's kstrtouint,        *)
(* kstrtoint, kstrtobool and, for target_loads, get_tokenized_data with    *)
(* sscanf("%u") and strpbrk(" :").                                         *)
(***************************************************************************)
DigitValue(c) == CASE c = "0" -> 0 [] c = "1" -> 1 [] OTHER -> -1

IsDigit(c) == DigitValue(c) >= 0

\* All sequences over chars of length 1..n.
Buffers(chars, n) == UNION { [1..k -> chars] : k \in 1..n }

\* The decimal value of the digits s[i..j] (0 for none).
RECURSIVE DigitsValue(_, _, _)
DigitsValue(s, i, j) ==
    IF j < i THEN 0
    ELSE 10 * DigitsValue(s, i, j - 1) + DigitValue(s[j])

\* The end of the run of digits of s that starts at i (i - 1 for none).
RECURSIVE DigitsEnd(_, _)
DigitsEnd(s, i) ==
    IF i <= Len(s) /\ IsDigit(s[i]) THEN DigitsEnd(s, i + 1) ELSE i - 1

\* kstrtouint(buf, 10, &res): the whole buffer must be a run of digits.
kstrtouint(s) ==
    IF Len(s) >= 1 /\ DigitsEnd(s, 1) = Len(s)
    THEN [ok |-> TRUE, val |-> DigitsValue(s, 1, Len(s))]
    ELSE [ok |-> FALSE, val |-> 0]

\* kstrtoint(buf, 10, &res): a run of digits after an optional minus sign.
kstrtoint(s) ==
    IF Len(s) >= 2 /\ s[1] = "-" /\ DigitsEnd(s, 2) = Len(s)
    THEN [ok |-> TRUE, val |-> 0 - DigitsValue(s, 2, Len(s))]
    ELSE kstrtouint(s)

\* kstrtobool(buf, &res) on the buffers of the model: the first character
\* decides, "1" is true and "0" is false.
kstrtobool(s) ==
    IF Len(s) >= 1 /\ s[1] \in {"0", "1"}
    THEN [ok |-> TRUE, val |-> s[1] = "1"]
    ELSE [ok |-> FALSE, val |-> FALSE]

IsSeparator(c) == c \in {" ", ":"}

\* strpbrk(cp, " :") from position i: the position of the first separator at
\* or after i, 0 for NULL.
RECURSIVE strpbrk(_, _)
strpbrk(s, i) ==
    IF i > Len(s) THEN 0
    ELSE IF IsSeparator(s[i]) THEN i
    ELSE strpbrk(s, i + 1)

\* The counting loop of get_tokenized_data: ntokens starts at 1 and grows by
\* one for every separator found from cp + 1 on.
RECURSIVE count_tokens(_, _, _)
count_tokens(s, cp, ntokens) ==
    IF strpbrk(s, cp + 1) = 0 THEN ntokens
    ELSE count_tokens(s, strpbrk(s, cp + 1), ntokens + 1)

\* sscanf(cp, "%u", &v) at position cp: white space is skipped, then a run
\* of digits is converted; ok is whether one value was read.
RECURSIVE skip_spaces(_, _)
skip_spaces(s, i) ==
    IF i <= Len(s) /\ s[i] = " " THEN skip_spaces(s, i + 1) ELSE i

sscanf_u(s, cp) ==
    LET from(i) == [ok |-> DigitsEnd(s, i) >= i,
                    val |-> DigitsValue(s, i, DigitsEnd(s, i))]
    IN  from(skip_spaces(s, cp))

\* The parsing loop of get_tokenized_data from position cp with the values
\* read so far; it ends with an error (err_kfree), at the end of the buffer
\* (break) or with ntokens values read.
RECURSIVE parse_tokens(_, _, _, _)
parse_tokens(s, cp, data, ntokens) ==
    IF Len(data) >= ntokens THEN [ok |-> TRUE, data |-> data]
    ELSE IF ~sscanf_u(s, cp).ok THEN [ok |-> FALSE, data |-> data]
    ELSE IF strpbrk(s, cp) = 0
    THEN [ok |-> TRUE, data |-> Append(data, sscanf_u(s, cp).val)]
    ELSE parse_tokens(s, strpbrk(s, cp) + 1,
                      Append(data, sscanf_u(s, cp).val), ntokens)

\* get_tokenized_data(buf, &ntokens); the kmalloc is taken to succeed.
get_tokenized_data(s) ==
    LET checked(r, ntokens) ==
            IF r.ok /\ Len(r.data) = ntokens
            THEN [ok |-> TRUE, data |-> r.data, err |-> "0"]
            ELSE [ok |-> FALSE, data |-> <<>>, err |-> "-EINVAL"]
        counted(ntokens) ==
            IF ntokens % 2 = 0
            THEN [ok |-> FALSE, data |-> <<>>, err |-> "-EINVAL"]
            ELSE checked(parse_tokens(s, 1, <<>>, ntokens), ntokens)
    IN  counted(count_tokens(s, 1, 1))

\* target_loads_store
target_loads_store(tun, p, s) ==
    LET stored(r) ==
            IF r.ok
            THEN [tun |-> [tun EXCEPT !.target_loads = r.data], p |-> p,
                  ret |-> "count"]
            ELSE [tun |-> tun, p |-> p, ret |-> r.err]
    IN  stored(get_tokenized_data(s))

\* The handlers that parse an unsigned number and hand it on.
UintAttrs ==
    {"up_rate_limit_us", "down_rate_limit_us", "hispeed_load", "hispeed_freq",
     "rtg_boost_freq", "adaptive_low_freq", "adaptive_high_freq",
     "target_load_thresh", "target_load_shift"}

\* The store handler of the unsigned attribute name on the buffer s.
uint_store(name, tun, p, pol, s) ==
    LET val == kstrtouint(s).val
        done(r) == [tun |-> r.tun, p |-> r.p, ret |-> "count"]
    IN  IF ~kstrtouint(s).ok THEN [tun |-> tun, p |-> p, ret |-> "-EINVAL"]
        ELSE IF name = "up_rate_limit_us"
        THEN done(up_rate_limit_us_store(tun, p, val))
        ELSE IF name = "down_rate_limit_us"
        THEN done(down_rate_limit_us_store(tun, p, val))
        ELSE IF name = "hispeed_load" THEN done(hispeed_load_store(tun, p, val))
        ELSE IF name = "hispeed_freq"
        THEN done(hispeed_freq_store(tun, p, pol, val))
        ELSE IF name = "rtg_boost_freq"
        THEN done(rtg_boost_freq_store(tun, p, pol, val))
        ELSE done(store_attr(tun, p, name, val))

\* pl_store on the buffer s.
pl_store_buf(tun, p, s) ==
    LET done(r) == [tun |-> r.tun, p |-> r.p, ret |-> "count"]
    IN  IF ~kstrtobool(s).ok THEN [tun |-> tun, p |-> p, ret |-> "-EINVAL"]
        ELSE done(pl_store(tun, p, kstrtobool(s).val))

\* boost_store on the buffer s, up to the assignment: accepted says whether
\* the handler goes on to run the callbacks.
boost_store_buf(tun, s) ==
    IF ~kstrtoint(s).ok THEN [tun |-> tun, accepted |-> FALSE]
    ELSE IF kstrtoint(s).val < -100 \/ kstrtoint(s).val > 1000
    THEN [tun |-> tun, accepted |-> FALSE]
    ELSE [tun |-> [tun EXCEPT !.boost = kstrtoint(s).val],
          accepted |-> TRUE]

(***************************************************************************)
(* The sysfs specification: one write to an attribute of an attached      *)
(* governor, with every short buffer over a small alphabet.                *)
(***************************************************************************)
\* Writes per behaviour.
MaxWrites == 1
\* Characters per buffer.
MaxBuf == 4

DEFAULT_TARGET_LOAD == 80

\* The characters of the buffers written to the numeric attributes and to
\* target_loads.
NumberChars == {"0", "1", "-", "x"}

TableChars == {"1", " ", ":", "x"}

InitSysfs ==
    /\ now = T0
    /\ gov \in {"initialized", "started"}
    /\ config = [frame_boost |-> FALSE, div0_traps |-> FALSE,
                 ed_boost_pct |-> 0, conservative_pl |-> FALSE, rt_util |-> 0]
    /\ tunables \in { t @@ [target_loads |-> <<DEFAULT_TARGET_LOAD>>] :
                        t \in InitTunables }
    /\ wg_policy = IF gov = "started" THEN waltgov_start(ZeroPolicy, tunables)
                   ELSE ZeroPolicy
    /\ wg_cpu = [c \in Cpus |-> ZeroCpu]
    /\ policy \in [cpu : {0}, cpus : {{0}}, cur : {100}, min : {100},
                   max : {400}, cpuinfo_max_freq : {400},
                   freq_table : {FreqTable},
                   fast_switch_enabled : BOOLEAN, is_min_cluster : {FALSE}]
    /\ work = NoWork
    /\ last = [op |-> "init", name |-> "none", buf |-> <<>>, ret |-> "0"]
    /\ hist = HistInit
    /\ stores = 0
    /\ ops = 0
    /\ life = LifeOf(gov, policy)
    /\ pc = NoThreads
    /\ locks = NoLocks

\* A handler that touches the tunables and the domain only has returned.
SysfsDone(name, buf, r) ==
    /\ ops < MaxWrites
    /\ life.kobject
    /\ tunables' = r.tun
    /\ wg_policy' = r.p
    /\ last' = [op |-> "sysfs", name |-> name, buf |-> buf, ret |-> r.ret]
    /\ ops' = ops + 1
    /\ UNCHANGED <<pc, locks, life, now, gov, config, wg_cpu, policy, work, hist,
                   stores>>

SysfsUintStore(name, buf) ==
    SysfsDone(name, buf, uint_store(name, tunables, wg_policy, policy, buf))

SysfsPlStore(buf) == SysfsDone("pl", buf, pl_store_buf(tunables, wg_policy, buf))

SysfsTargetLoadsStore(buf) ==
    SysfsDone("target_loads", buf,
              target_loads_store(tunables, wg_policy, buf))

\* boost_store: a rejected buffer returns -EINVAL; an accepted one sets the
\* boost and runs the callback of policy->cpu, if one is registered, with
\* WALT_CPUFREQ_BOOST_UPDATE.
SysfsBoostStore(buf, pr) ==
    /\ ops < MaxWrites
    /\ life.kobject
    /\ LET ran(tun, r) ==
               /\ tunables' = tun
               /\ wg_policy' = r.p
               /\ policy' = r.pol
               /\ wg_cpu' = r.cpus
               /\ work' = r.wk
           stored(b) ==
               /\ last' = [op |-> "sysfs", name |-> "boost", buf |-> buf,
                           ret |-> IF b.accepted THEN "count" ELSE "-EINVAL"]
               /\ IF b.accepted /\ policy.cpu \in life.cb
                  THEN ran(b.tun,
                           waltgov_update_freq(wg_policy, b.tun, policy,
                                               wg_cpu, work, policy.cpu, now,
                                               {WALT_CPUFREQ_BOOST_UPDATE},
                                               Sample(pr, now),
                                               config.rt_util))
                  ELSE /\ tunables' = b.tun
                       /\ UNCHANGED <<wg_policy, policy, wg_cpu, work>>
       IN  stored(boost_store_buf(tunables, buf))
    /\ ops' = ops + 1
    /\ UNCHANGED <<pc, locks, life, now, gov, config, hist, stores>>

NextSysfs ==
    \/ \E name \in UintAttrs, buf \in Buffers(NumberChars, MaxBuf) :
           SysfsUintStore(name, buf)
    \/ \E buf \in Buffers(NumberChars, MaxBuf) : SysfsPlStore(buf)
    \/ \E buf \in Buffers(TableChars, MaxBuf) : SysfsTargetLoadsStore(buf)
    \/ \E buf \in Buffers(NumberChars, MaxBuf), pr \in SampleProfiles :
           SysfsBoostStore(buf, pr)

SpecSysfs == InitSysfs /\ [][NextSysfs]_vars

(***************************************************************************)
(* Properties of the sysfs specification.                                  *)
(***************************************************************************)
\* The buffer is a decimal number, with a minus sign if signed.
IsNumber(buf, signed) ==
    /\ Len(buf) >= 1
    /\ \A i \in 1..Len(buf) :
           IsDigit(buf[i]) \/ (signed /\ i = 1 /\ Len(buf) >= 2 /\ buf[i] = "-")

\* The number of tokens of a buffer: its maximal runs of characters that
\* are not separators.
TokenRuns(buf) ==
    Cardinality({ i \in 1..Len(buf) :
                    ~IsSeparator(buf[i]) /\ (i = 1 \/ IsSeparator(buf[i - 1])) })

\* The write changed neither a tunable nor a field of the domain.
NothingWritten ==
    UNCHANGED <<tunables, wg_policy, wg_cpu, policy, work>>

WriteRejected == last'.ret = "-EINVAL" /\ NothingWritten

\* C21: a sysfs write of a buffer that is not a number to a numeric
\* attribute, of a boost outside -100..1000, or of a target_loads string
\* with an even number of tokens returns -EINVAL and changes no tunable and
\* no field of the domain; no rejected write changes any.
C21_MalformedWriteRejected ==
    [][last'.op = "sysfs" =>
          /\ (last'.name \in UintAttrs /\ ~IsNumber(last'.buf, FALSE))
                 => WriteRejected
          /\ (last'.name = "boost"
                /\ (~IsNumber(last'.buf, TRUE)
                      \/ kstrtoint(last'.buf).val < -100
                      \/ kstrtoint(last'.buf).val > 1000))
                 => WriteRejected
          /\ (last'.name = "target_loads" /\ TokenRuns(last'.buf) % 2 = 0)
                 => WriteRejected
          /\ last'.ret = "-EINVAL" => NothingWritten]_vars

\* The part of C21 the code keeps: the same with the tokens of a
\* target_loads string counted as get_tokenized_data counts them, one more
\* than the separators after the first character.
C21_RejectedWriteChangesNothing ==
    [][last'.op = "sysfs" =>
          /\ (last'.name \in UintAttrs /\ ~IsNumber(last'.buf, FALSE))
                 => WriteRejected
          /\ (last'.name = "boost"
                /\ (~IsNumber(last'.buf, TRUE)
                      \/ kstrtoint(last'.buf).val < -100
                      \/ kstrtoint(last'.buf).val > 1000))
                 => WriteRejected
          /\ (last'.name = "target_loads"
                /\ count_tokens(last'.buf, 1, 1) % 2 = 0)
                 => WriteRejected
          /\ last'.ret = "-EINVAL" => NothingWritten]_vars

\* A target_loads string of two tokens was accepted.
C21_EvenTokensAccepted ==
    /\ last.op = "sysfs"
    /\ last.name = "target_loads"
    /\ TokenRuns(last.buf) = 2
    /\ last.ret = "count"

(***************************************************************************)
(* The concurrency specification: one started two-CPU domain whose         *)
(* handlers are cut at their lock operations, so that the handlers of      *)
(* different threads interleave exactly as the locks allow.                *)
(***************************************************************************)
\* Handler invocations and clock steps per behaviour.
MaxConc == 3

\* What the scheduler finds on a CPU.
ConcProfiles == { pr \in SampleProfiles : pr.util > 0 }

ConcFlags == { {}, {WALT_CPUFREQ_PL} }

\* The threads that run the update callback, and the CPU of a scheduler
\* thread.
CallbackThreads == {"cb0", "cb1", "store"}

CpuOf(t) == IF t = "cb1" THEN 1 ELSE 0

Mutexes == {"work_lock", "min_rate_lock"}

\* The locks thread t holds; every rq->__lock counts as "rq".
Held(lk, t) ==
    { l \in {"update_lock", "work_lock", "min_rate_lock"} : lk[l] = t }
    \cup (IF \E c \in Cpus : lk.rq[c] = t THEN {"rq"} ELSE {})

\* order: the lock acquisitions so far, as pairs <<lock held, lock
\* acquired>>; committed: a callback has queued the irq work; superseded: it
\* did so while a kthread work stood between its read of next_freq and its
\* hardware call; applied: the frequency the kthread last handed to the
\* driver.
ConcHistInit ==
    [order |-> {}, committed |-> FALSE, superseded |-> FALSE, applied |-> 0]

\* mutex_lock / raw_spin_lock of lock l by thread t: possible once it is free.
Acquire(l, t) ==
    /\ locks[l] = "none"
    /\ locks' = [locks EXCEPT ![l] = t]
    /\ hist' = [hist EXCEPT
                   !.order = @ \cup { <<h, l>> : h \in Held(locks, t) }]

\* raw_spin_lock_irqsave(&rq->__lock) of CPU c.
AcquireRq(lk, c, t) == [lk EXCEPT !.rq[c] = t]

Release(lk, l) == [lk EXCEPT ![l] = "none"]

\* Variant of waltgov_work_unlock that keeps update_lock across the work
\* mutex.
waltgov_work_unlock_late(lk) == lk

\* raw_spin_unlock_irqrestore(&wg_policy->update_lock) of waltgov_work, before
\* its mutex_lock(&wg_policy->work_lock).
waltgov_work_unlock(lk) == Release(lk, "update_lock")

ReleaseRq(lk, t) ==
    [lk EXCEPT !.rq = [c \in Cpus |-> IF lk.rq[c] = t THEN "none"
                                       ELSE lk.rq[c]]]

ConcDid(op, t) == [op |-> op, thread |-> t, out |-> NoOut]

InitConc ==
    /\ now = T0
    /\ gov = "started"
    /\ config \in [frame_boost : BOOLEAN, div0_traps : {FALSE},
                   ed_boost_pct : {0}, conservative_pl : {FALSE},
                   rt_util : {0}]
    /\ tunables = DefaultTunables
    /\ wg_policy = waltgov_start(ZeroPolicy, tunables)
    /\ wg_cpu = [c \in Cpus |-> ZeroCpu]
    /\ policy \in [cpu : {0}, cpus : {Cpus}, cur : {100}, min : {100},
                   max : {400}, cpuinfo_max_freq : {400},
                   freq_table : {FreqTable},
                   fast_switch_enabled : BOOLEAN, is_min_cluster : {FALSE}]
    /\ work = NoWork
    /\ last = ConcDid("start", "none")
    /\ hist = ConcHistInit
    /\ stores = 0
    /\ ops = 0
    /\ life = LifeOf(gov, policy)
    /\ pc = NoThreads
    /\ locks = NoLocks

ConcTick ==
    /\ ops < MaxConc
    /\ ops' = ops + 1
    /\ now' = now + TickNs
    /\ last' = ConcDid("tick", "none")
    /\ UNCHANGED <<gov, config, tunables, wg_policy, wg_cpu, policy, work,
                   hist, stores, life, pc, locks>>

\* The scheduler, holding the rq lock of its CPU, calls the update callback.
\* A predicted-load event with the pl tunable off returns at once.  Builds
\* without frame boost sample the CPU before they take update_lock.
CbBegin(t, flags, pr) ==
    /\ ops < MaxConc
    /\ t \in {"cb0", "cb1"}
    /\ pc[t].at = "idle"
    /\ locks.rq[CpuOf(t)] = "none"
    /\ ops' = ops + 1
    /\ IF update_freq_dropped(tunables, flags)
       THEN /\ last' = [ConcDid("cb_dropped", t) EXCEPT !.out.dropped = TRUE]
            /\ UNCHANGED <<pc, locks, wg_cpu>>
       ELSE /\ pc' = [pc EXCEPT ![t] =
                         [at |-> "lock", cpu |-> CpuOf(t), flags |-> flags,
                          sample |-> Sample(pr, now), time |-> now]]
            /\ locks' = AcquireRq(locks, CpuOf(t), t)
            /\ wg_cpu' = IF config.frame_boost THEN wg_cpu
                         ELSE waltgov_sample(wg_cpu, CpuOf(t), flags,
                                             Sample(pr, now))
            /\ last' = ConcDid("cb_begin", t)
    /\ UNCHANGED <<now, gov, config, tunables, wg_policy, policy, work, hist,
                   stores, life>>

\* raw_spin_lock(&wg_policy->update_lock) of the callback.
CbLock(t) ==
    /\ t \in CallbackThreads
    /\ pc[t].at = "lock"
    /\ Acquire("update_lock", t)
    /\ pc' = [pc EXCEPT ![t].at = "locked"]
    /\ last' = ConcDid("cb_lock", t)
    /\ UNCHANGED <<now, gov, config, tunables, wg_policy, wg_cpu, policy,
                   work, stores, ops, life>>

\* The callback under update_lock, up to the unlock; frame boost builds take
\* the sample here.  The caller then drops its rq lock.
CbLocked(t) ==
    /\ t \in CallbackThreads
    /\ pc[t].at = "locked"
    /\ LET self == pc[t]
           slots == IF config.frame_boost
                    THEN waltgov_sample(wg_cpu, self.cpu, self.flags,
                                        self.sample)
                    ELSE wg_cpu
           done(r) ==
               /\ wg_policy' = r.p
               /\ policy' = r.pol
               /\ wg_cpu' = r.cpus
               /\ work' = r.wk
               /\ hist' = [hist EXCEPT
                              !.committed = @ \/ r.out.queued,
                              !.superseded =
                                  @ \/ (/\ r.out.queued
                                        /\ pc["kthread"].at
                                               \in {"work_lock", "target"})]
               /\ last' = [ConcDid("cb", t) EXCEPT !.out = r.out]
       IN  \E r \in { waltgov_update_freq_locked(
                            wg_policy, tunables, policy, slots, work,
                            self.cpu, self.time, self.flags,
                            config.rt_util) } : done(r)
    /\ locks' = ReleaseRq(Release(locks, "update_lock"), t)
    /\ pc' = [pc EXCEPT ![t] = Idle]
    /\ UNCHANGED <<now, gov, config, tunables, stores, ops, life>>

\* up_rate_limit_us_store: the tunable and the domain's delay are written
\* with no lock held; update_min_rate_limit_ns follows.
RateLimitBegin(v) ==
    /\ ops < MaxConc
    /\ pc["store"].at = "idle"
    /\ ops' = ops + 1
    /\ tunables' = [tunables EXCEPT !.up_rate_limit_us = v]
    /\ wg_policy' = [wg_policy EXCEPT !.up_rate_delay_ns = v * NSEC_PER_USEC]
    /\ pc' = [pc EXCEPT !["store"] = [at |-> "min_rate_lock"]]
    /\ last' = ConcDid("up_rate_limit_us_store", "store")
    /\ UNCHANGED <<now, gov, config, wg_cpu, policy, work, hist, stores,
                   life, locks>>

\* mutex_lock(&min_rate_lock)
MinRateLock ==
    /\ pc["store"].at = "min_rate_lock"
    /\ Acquire("min_rate_lock", "store")
    /\ pc' = [pc EXCEPT !["store"].at = "min_rate_locked"]
    /\ last' = ConcDid("min_rate_lock", "store")
    /\ UNCHANGED <<now, gov, config, tunables, wg_policy, wg_cpu, policy,
                   work, stores, ops, life>>

\* The body of update_min_rate_limit_ns and its mutex_unlock.
MinRateLocked ==
    /\ pc["store"].at = "min_rate_locked"
    /\ wg_policy' = update_min_rate_limit_ns(wg_policy)
    /\ locks' = Release(locks, "min_rate_lock")
    /\ pc' = [pc EXCEPT !["store"] = Idle]
    /\ last' = ConcDid("update_min_rate_limit_ns", "store")
    /\ UNCHANGED <<now, gov, config, tunables, wg_cpu, policy, work, hist,
                   stores, ops, life>>

\* hispeed_freq_store: the tunable is written with no lock held.
HispeedFreqBegin(v) ==
    /\ ops < MaxConc
    /\ pc["store"].at = "idle"
    /\ ops' = ops + 1
    /\ tunables' = [tunables EXCEPT !.hispeed_freq = v]
    /\ pc' = [pc EXCEPT !["store"] = [at |-> "hispeed_lock"]]
    /\ last' = ConcDid("hispeed_freq_store", "store")
    /\ UNCHANGED <<now, gov, config, wg_policy, wg_cpu, policy, work, hist,
                   stores, life, locks>>

\* raw_spin_lock_irqsave(&wg_policy->update_lock) of hispeed_freq_store.
HispeedFreqLock ==
    /\ pc["store"].at = "hispeed_lock"
    /\ Acquire("update_lock", "store")
    /\ pc' = [pc EXCEPT !["store"].at = "hispeed_locked"]
    /\ last' = ConcDid("hispeed_lock", "store")
    /\ UNCHANGED <<now, gov, config, tunables, wg_policy, wg_cpu, policy,
                   work, stores, ops, life>>

\* hispeed_util is recomputed and update_lock released.
HispeedFreqLocked ==
    /\ pc["store"].at = "hispeed_locked"
    /\ wg_policy' = [wg_policy EXCEPT
                        !.hispeed_util = target_util(wg_policy, tunables,
                                                     policy,
                                                     tunables.hispeed_freq)]
    /\ locks' = Release(locks, "update_lock")
    /\ pc' = [pc EXCEPT !["store"] = Idle]
    /\ last' = ConcDid("hispeed_util", "store")
    /\ UNCHANGED <<now, gov, config, tunables, wg_cpu, policy, work, hist,
                   stores, ops, life>>

\* hispeed_load_store: kstrtouint parses into tunables->hispeed_load itself,
\* with no lock held.
HispeedLoadBegin(v) ==
    /\ ops < MaxConc
    /\ pc["store"].at = "idle"
    /\ ops' = ops + 1
    /\ tunables' = [tunables EXCEPT !.hispeed_load = v]
    /\ pc' = [pc EXCEPT !["store"] = [at |-> "hispeed_load_clamp"]]
    /\ last' = ConcDid("hispeed_load_parsed", "store")
    /\ UNCHANGED <<now, gov, config, wg_policy, wg_cpu, policy, work, hist,
                   stores, life, locks>>

\* tunables->hispeed_load = min(100U, tunables->hispeed_load)
HispeedLoadClamp ==
    /\ pc["store"].at = "hispeed_load_clamp"
    /\ tunables' = hispeed_load_store(tunables, wg_policy,
                                      tunables.hispeed_load).tun
    /\ pc' = [pc EXCEPT !["store"] = Idle]
    /\ last' = ConcDid("hispeed_load_store", "store")
    /\ UNCHANGED <<now, gov, config, wg_policy, wg_cpu, policy, work, hist,
                   stores, ops, life, locks>>

\* boost_store: the tunable is written with no lock held.
BoostBegin(v) ==
    /\ ops < MaxConc
    /\ pc["store"].at = "idle"
    /\ ops' = ops + 1
    /\ tunables' = [tunables EXCEPT !.boost = v]
    /\ pc' = [pc EXCEPT !["store"] = [at |-> "rq_lock"]]
    /\ last' = ConcDid("boost_store", "store")
    /\ UNCHANGED <<now, gov, config, wg_policy, wg_cpu, policy, work, hist,
                   stores, life, locks>>

\* raw_spin_lock_irqsave(&rq->__lock) of policy->cpu, then
\* waltgov_run_callback(rq, WALT_CPUFREQ_BOOST_UPDATE) up to its update_lock.
BoostRqLock(pr) ==
    /\ pc["store"].at = "rq_lock"
    /\ locks.rq[policy.cpu] = "none"
    /\ locks' = AcquireRq(locks, policy.cpu, "store")
    /\ pc' = [pc EXCEPT !["store"] =
                 [at |-> "lock", cpu |-> policy.cpu,
                  flags |-> {WALT_CPUFREQ_BOOST_UPDATE},
                  sample |-> Sample(pr, now), time |-> now]]
    /\ wg_cpu' = IF config.frame_boost THEN wg_cpu
                 ELSE waltgov_sample(wg_cpu, policy.cpu,
                                     {WALT_CPUFREQ_BOOST_UPDATE},
                                     Sample(pr, now))
    /\ last' = ConcDid("cb_begin", "store")
    /\ UNCHANGED <<now, gov, config, tunables, wg_policy, policy, work, hist,
                   stores, ops, life>>

\* The cpufreq core has set the new limits and calls limits(): the deferred
\* path starts with mutex_lock(&wg_policy->work_lock).
LimitsBegin(lim) ==
    /\ ops < MaxConc
    /\ pc["limits"].at = "idle"
    /\ ops' = ops + 1
    /\ policy' = [policy EXCEPT !.min = lim[1], !.max = lim[2]]
    /\ pc' = [pc EXCEPT !["limits"] =
                 [at |-> IF policy.fast_switch_enabled THEN "lock"
                         ELSE "work_lock"]]
    /\ last' = ConcDid("limits_begin", "limits")
    /\ UNCHANGED <<now, gov, config, tunables, wg_policy, wg_cpu, work, hist,
                   stores, life, locks>>

LimitsWorkLock ==
    /\ pc["limits"].at = "work_lock"
    /\ Acquire("work_lock", "limits")
    /\ pc' = [pc EXCEPT !["limits"].at = "lock"]
    /\ last' = ConcDid("limits_work_lock", "limits")
    /\ UNCHANGED <<now, gov, config, tunables, wg_policy, wg_cpu, policy,
                   work, stores, ops, life>>

\* raw_spin_lock_irqsave(&wg_policy->update_lock) of limits().
LimitsLock ==
    /\ pc["limits"].at = "lock"
    /\ Acquire("update_lock", "limits")
    /\ pc' = [pc EXCEPT !["limits"].at = "locked"]
    /\ last' = ConcDid("limits_lock", "limits")
    /\ UNCHANGED <<now, gov, config, tunables, wg_policy, wg_cpu, policy,
                   work, stores, ops, life>>

\* Under update_lock: the deferred path accounts the cycles; the fast path
\* resolves policy->cur, commits and switches, and sets limits_changed after
\* the unlock.
LimitsLocked ==
    /\ pc["limits"].at = "locked"
    /\ locks' = Release(locks, "update_lock")
    /\ IF policy.fast_switch_enabled
       THEN /\ LET done(r) ==
                       /\ wg_policy' = r.p
                       /\ policy' = r.pol
                       /\ last' = [ConcDid("limits", "limits")
                                      EXCEPT !.out = r.out]
               IN  done(waltgov_limits(wg_policy, policy, now))
            /\ pc' = [pc EXCEPT !["limits"] = Idle]
       ELSE /\ wg_policy' = waltgov_track_cycles(wg_policy, policy.cur, now)
            /\ pc' = [pc EXCEPT !["limits"].at = "apply"]
            /\ last' = ConcDid("limits_track_cycles", "limits")
            /\ UNCHANGED policy
    /\ UNCHANGED <<now, gov, config, tunables, wg_cpu, work, hist, stores,
                   ops, life>>

\* cpufreq_policy_apply_limits under work_lock, mutex_unlock, and
\* limits_changed = true.
LimitsApply ==
    /\ pc["limits"].at = "apply"
    /\ policy' = cpufreq_policy_apply_limits(policy)
    /\ wg_policy' = [wg_policy EXCEPT !.limits_changed = TRUE]
    /\ locks' = Release(locks, "work_lock")
    /\ pc' = [pc EXCEPT !["limits"] = Idle]
    /\ last' = ConcDid("limits", "limits")
    /\ UNCHANGED <<now, gov, config, tunables, wg_cpu, work, hist, stores,
                   ops, life>>

\* waltgov_irq_work, in interrupt context: kthread_queue_work.
ConcIrqWork ==
    /\ work.irq
    /\ work' = [irq |-> FALSE, queued |-> TRUE]
    /\ last' = ConcDid("irq_work", "none")
    /\ UNCHANGED <<now, gov, config, tunables, wg_policy, wg_cpu, policy,
                   hist, stores, ops, life, pc, locks>>

\* The kthread worker takes the queued work and calls waltgov_work.
KthreadBegin ==
    /\ work.queued
    /\ pc["kthread"].at = "idle"
    /\ work' = [work EXCEPT !.queued = FALSE]
    /\ pc' = [pc EXCEPT !["kthread"] = [at |-> "lock", freq |-> 0]]
    /\ last' = ConcDid("work_begin", "kthread")
    /\ UNCHANGED <<now, gov, config, tunables, wg_policy, wg_cpu, policy,
                   hist, stores, ops, life, locks>>

KthreadLock ==
    /\ pc["kthread"].at = "lock"
    /\ Acquire("update_lock", "kthread")
    /\ pc' = [pc EXCEPT !["kthread"].at = "locked"]
    /\ last' = ConcDid("work_lock_update", "kthread")
    /\ UNCHANGED <<now, gov, config, tunables, wg_policy, wg_cpu, policy,
                   work, stores, ops, life>>

\* freq = wg_policy->next_freq and the cycle accounting, under update_lock.
KthreadLocked ==
    /\ pc["kthread"].at = "locked"
    /\ wg_policy' = waltgov_track_cycles(wg_policy, policy.cur, now)
    /\ locks' = waltgov_work_unlock(locks)
    /\ pc' = [pc EXCEPT !["kthread"] =
                 [at |-> "work_lock", freq |-> wg_policy.next_freq]]
    /\ last' = ConcDid("work_read", "kthread")
    /\ UNCHANGED <<now, gov, config, tunables, wg_cpu, policy, work, hist,
                   stores, ops, life>>

KthreadWorkLock ==
    /\ pc["kthread"].at = "work_lock"
    /\ Acquire("work_lock", "kthread")
    /\ pc' = [pc EXCEPT !["kthread"].at = "target"]
    /\ last' = ConcDid("work_lock_work", "kthread")
    /\ UNCHANGED <<now, gov, config, tunables, wg_policy, wg_cpu, policy,
                   work, stores, ops, life>>

\* __cpufreq_driver_target(policy, freq, CPUFREQ_RELATION_L) under work_lock.
KthreadTarget ==
    /\ pc["kthread"].at = "target"
    /\ policy' = [policy EXCEPT
                     !.cur = cpufreq_driver_resolve_freq(
                                 policy, pc["kthread"].freq)]
    /\ locks' = Release(locks, "work_lock")
    /\ pc' = [pc EXCEPT !["kthread"] = Idle]
    /\ hist' = [hist EXCEPT !.applied = pc["kthread"].freq]
    /\ last' = ConcDid("work", "kthread")
    /\ UNCHANGED <<now, gov, config, tunables, wg_policy, wg_cpu, work,
                   stores, ops, life>>

\* The steps that start a handler, and the steps inside handlers other than
\* the callback's critical section.
ConcBegin ==
    \/ ConcTick
    \/ \E t \in {"cb0", "cb1"}, flags \in ConcFlags, pr \in ConcProfiles :
           CbBegin(t, flags, pr)
    \/ \E v \in {2000} : RateLimitBegin(v)
    \/ \E v \in {300} : HispeedFreqBegin(v)
    \/ \E v \in {150} : HispeedLoadBegin(v)
    \/ \E v \in {50} : BoostBegin(v)
    \/ \E lim \in { <<100, 200>>, <<300, 400>> } : LimitsBegin(lim)

ConcStep ==
    \/ \E t \in CallbackThreads : CbLock(t)
    \/ MinRateLock
    \/ MinRateLocked
    \/ HispeedFreqLock
    \/ HispeedFreqLocked
    \/ HispeedLoadClamp
    \/ \E pr \in ConcProfiles : BoostRqLock(pr)
    \/ LimitsWorkLock
    \/ LimitsLock
    \/ LimitsLocked
    \/ LimitsApply
    \/ ConcIrqWork
    \/ KthreadBegin
    \/ KthreadLock
    \/ KthreadLocked
    \/ KthreadWorkLock
    \/ KthreadTarget

NextConc ==
    \/ ConcBegin
    \/ \E t \in CallbackThreads : CbLocked(t)
    \/ ConcStep

SpecConc == InitConc /\ [][NextConc]_vars

(***************************************************************************)
(* Properties of the locking.                                              *)
(***************************************************************************)
\* The lock a thread is about to acquire ("none": it is not at a lock call).
Wants(t) ==
    LET at == pc[t].at
    IN  IF at \in {"lock", "hispeed_lock"} THEN "update_lock"
        ELSE IF at = "work_lock" THEN "work_lock"
        ELSE IF at = "min_rate_lock" THEN "min_rate_lock"
        ELSE IF at = "rq_lock" THEN "rq"
        ELSE "none"

Blocked(t) ==
    LET l == Wants(t)
    IN  /\ l # "none"
        /\ IF l = "rq" THEN locks.rq[policy.cpu] # "none"
           ELSE locks[l] # "none"

\* The nestings the code has: work_lock, or a runqueue lock, outside
\* update_lock.
LockOrder == { <<"work_lock", "update_lock">>, <<"rq", "update_lock">> }

\* C22: locks are acquired in one order (a mutex or a runqueue lock before
\* update_lock, never a lock after update_lock), a thread inside the update
\* callback holds no mutex, and whenever a handler is in progress some
\* handler in progress can take its next step: no interleaving of
\* callbacks, stores, limits() and the kthread work deadlocks.
C22_LockOrderNoDeadlock ==
    /\ hist.order \subseteq LockOrder
    /\ \A t \in Threads :
           "update_lock" \in Held(locks, t) => Wants(t) = "none"
    /\ \A t \in CallbackThreads :
           pc[t].at \in {"lock", "locked"}
               => Held(locks, t) \cap Mutexes = {}
    /\ (\E t \in Threads : pc[t].at # "idle")
           => \E t \in Threads : pc[t].at # "idle" /\ ~Blocked(t)

\* limits() holds work_lock and waits for update_lock, which a callback
\* holds, while the kthread work waits for work_lock.
C22_Witness ==
    /\ locks.work_lock = "limits"
    /\ pc["limits"].at = "lock"
    /\ locks.update_lock \in {"cb0", "cb1"}
    /\ pc["kthread"].at = "work_lock"

\* The fields the selector reads, modifies and writes at a commit.
CommitFields(p) ==
    <<p.next_freq, p.cached_raw_freq, p.last_freq_update_time>>

\* A step that writes a CPU's slot is taken while no other thread holds
\* update_lock.
SlotsWrittenUnlocked ==
    wg_cpu' # wg_cpu => locks.update_lock \in {"none", last'.thread}

\* A step that writes next_freq, cached_raw_freq or last_freq_update_time is
\* taken by the thread that holds update_lock.
CommitUnderLock ==
    CommitFields(wg_policy') # CommitFields(wg_policy)
        => locks.update_lock = last'.thread

\* C23: sampling, aggregation, selection and commit of a callback are one
\* critical section under update_lock: no CPU's slot is written while
\* another thread holds the domain's update_lock, and next_freq,
\* cached_raw_freq and last_freq_update_time are written by the holder of
\* update_lock only.
C23_CallbackOneCriticalSection ==
    [][SlotsWrittenUnlocked /\ CommitUnderLock]_vars

\* What holds in every build: the commit fields change under update_lock
\* only, and in frame boost builds a slot is written by the holder of
\* update_lock only.
C23_CriticalSectionWithFrameBoost ==
    [][/\ CommitUnderLock
       /\ (config.frame_boost /\ wg_cpu' # wg_cpu)
              => locks.update_lock = last'.thread]_vars

\* In a build without frame boost a callback has sampled its CPU while
\* another callback of the domain held update_lock.
C23_SampledUnderForeignLock ==
    /\ ~config.frame_boost
    /\ last.op = "cb_begin"
    /\ locks.update_lock \in CallbackThreads \ {last.thread}
    /\ pc[locks.update_lock].at = "locked"

(***************************************************************************)
(* Properties of the dispatch.                                             *)
(***************************************************************************)
CycleFields(p) == <<p.curr_cycles, p.last_cyc_update_time, p.cyc_wrapped>>

\* C24: the dispatch strategy of the domain never changes.  The step of a
\* callback that ends its critical section is taken by the holder of
\* update_lock and (a) on a fast-switch domain a commit leaves the cycles
\* accounted up to the callback's time, at the outgoing frequency when the
\* callback did not begin a new window, sets the hardware frequency to the
\* committed next_freq and queues nothing; (b) on a deferred domain it
\* leaves the hardware frequency alone and a commit makes the irq work
\* pending; (c) without a commit it changes neither the hardware frequency
\* nor the pending work.  A fast-switch domain never has work pending.
C24_DispatchStrategy ==
    [][/\ policy'.fast_switch_enabled = policy.fast_switch_enabled
       /\ (policy.fast_switch_enabled => work' = NoWork)
       /\ (last'.op = "cb")
           => /\ locks.update_lock = last'.thread
              /\ IF ~last'.out.committed
                 THEN policy'.cur = policy.cur /\ work' = work
                 ELSE IF policy.fast_switch_enabled
                 THEN /\ policy'.cur = wg_policy'.next_freq
                      /\ last'.out.fast_switch /\ ~last'.out.queued
                      /\ wg_policy'.last_cyc_update_time =
                             Min(pc[last'.thread].time,
                                 wg_policy'.last_ws + sched_ravg_window)
                      /\ (wg_policy'.last_ws = wg_policy.last_ws)
                             => CycleFields(wg_policy') =
                                CycleFields(waltgov_track_cycles(
                                    wg_policy, policy.cur,
                                    pc[last'.thread].time))
                 ELSE /\ policy'.cur = policy.cur
                      /\ last'.out.queued /\ ~last'.out.fast_switch
                      /\ work' = [work EXCEPT !.irq = TRUE]]_vars

\* A callback on a fast-switch domain has committed a new frequency half a
\* window after the window began, at a non-zero outgoing frequency.
C24_Witness ==
    /\ last.op = "cb"
    /\ last.out.fast_switch
    /\ wg_policy.curr_cycles > 0
    /\ wg_policy.last_cyc_update_time > wg_policy.last_ws
    /\ policy.cur = wg_policy.next_freq

(***************************************************************************)
(* The concurrency specification with progress: a thread inside a handler  *)
(* keeps running, a pending irq work is run, and the kthread worker takes  *)
(* a queued work.  New handler invocations are not forced.  The domain     *)
(* dispatches through the kthread.                                         *)
(***************************************************************************)
InitDeferred ==
    InitConc /\ ~policy.fast_switch_enabled /\ ~config.frame_boost

\* CbLocked(t) is enabled exactly when pc[t].at = "locked" and leaves t
\* idle, so weak fairness of CbLocked(t) is that t is infinitely often not
\* at "locked".
CallbackLeavesLock == \A t \in CallbackThreads : []<>(pc[t].at # "locked")

SpecConcFair ==
    /\ InitDeferred
    /\ [][NextConc]_vars
    /\ WF_vars(ConcStep)
    /\ CallbackLeavesLock

\* The steps of waltgov_work and of the deferred limits() hold the locks the
\* code takes around them, and the kthread hands over what it read.
KthreadAppliesWhatItRead ==
    /\ (last'.op = "work_read")
           => /\ locks.update_lock = "kthread"
              /\ pc'["kthread"].freq = wg_policy.next_freq
    /\ (last'.op = "work")
           => /\ locks.work_lock = "kthread"
              /\ hist'.applied = pc["kthread"].freq
              /\ policy'.cur =
                     cpufreq_driver_resolve_freq(policy, pc["kthread"].freq)
    /\ (last'.op = "limits" /\ ~policy.fast_switch_enabled)
           => locks.work_lock = "limits"

\* C25: on a deferred domain, once a callback has committed, the kthread
\* eventually hands to __cpufreq_driver_target the value next_freq then has
\* (the committed one, or the one of a commit that superseded it);
\* the kthread reads next_freq while it holds update_lock and hands over
\* exactly what it read, holding work_lock, and limits() applies the new
\* limits while it holds work_lock.
C25_CommittedEventuallyApplied ==
    /\ [][KthreadAppliesWhatItRead]_vars
    /\ (~policy.fast_switch_enabled /\ hist.committed)
           ~> (hist.applied = wg_policy.next_freq)

\* The kthread has applied a frequency that a callback committed while an
\* earlier work was between its read of next_freq and its hardware call.
C25_Witness ==
    /\ last.op = "work"
    /\ hist.superseded
    /\ hist.applied = wg_policy.next_freq
    /\ work = NoWork

(***************************************************************************)
(* The commit specification: one started single-CPU domain with rate       *)
(* limits, driven by callbacks, limits() and the clock; each step records  *)
(* the candidate the selector resolved and the domain it found.            *)
(***************************************************************************)
MaxRate == 5

RateTunables ==
    { [DefaultTunables EXCEPT !.up_rate_limit_us = 2000,
                              !.down_rate_limit_us = 4000],
      [DefaultTunables EXCEPT !.up_rate_limit_us = 4000,
                              !.down_rate_limit_us = 2000] }

RateFlagSets ==
    { {} } \cup (IF config.frame_boost THEN {{SCHED_CPUFREQ_DEF_FRAMEBOOST}}
                 ELSE {})

\* rejected: the candidate the rate limit rejected last, while no frequency
\* has been committed since (0: none); retried: the last step committed the
\* candidate that stood rejected.
RateHistInit == [rejected |-> 0, retried |-> FALSE]

\* cand: the resolved candidate (0: nothing was resolved); before: the domain
\* as the selector found it, after the gate.
RateDid(op, out, cand, before) ==
    [op |-> op, out |-> out, cand |-> cand, before |-> before]

InitRate ==
    /\ now = T0
    /\ gov = "started"
    /\ config \in [frame_boost : BOOLEAN, div0_traps : {FALSE},
                   ed_boost_pct : {0}, conservative_pl : {FALSE},
                   rt_util : {0}]
    /\ tunables \in RateTunables
    /\ wg_policy = waltgov_start(ZeroPolicy, tunables)
    /\ wg_cpu = [c \in Cpus |-> ZeroCpu]
    /\ policy \in [cpu : {0}, cpus : {{0}}, cur : {100}, min : {100},
                   max : {400}, cpuinfo_max_freq : {400},
                   freq_table : {FreqTable},
                   fast_switch_enabled : BOOLEAN, is_min_cluster : {FALSE}]
    /\ work = NoWork
    /\ last = RateDid("start", NoOut, 0, wg_policy)
    /\ hist = RateHistInit
    /\ stores = 0
    /\ ops = 0
    /\ life = LifeOf(gov, policy)
    /\ pc = NoThreads
    /\ locks = NoLocks

RateTick ==
    /\ ops < MaxRate
    /\ ops' = ops + 1
    /\ now' = now + TickNs
    /\ last' = RateDid("tick", NoOut, 0, wg_policy)
    /\ hist' = [hist EXCEPT !.retried = FALSE]
    /\ UNCHANGED <<gov, config, tunables, wg_policy, wg_cpu, policy, work,
                   stores, life, pc, locks>>

\* The rejected candidate after a step that resolved cand on domain q.
RateRejected(rejected, out, cand, q, before) ==
    IF out.committed \/ q.next_freq # before.next_freq THEN 0
    ELSE IF out.resolved /\ cand # before.next_freq THEN cand
    ELSE rejected

\* The update callback of the domain's CPU.
RateCallback(flags, pr) ==
    /\ ops < MaxRate
    /\ ops' = ops + 1
    /\ LET gate == waltgov_should_update_freq(
                       IF config.frame_boost
                       THEN [wg_policy EXCEPT !.flags = flags]
                       ELSE wg_policy, now)
           cand(out) == IF out.resolved
                        THEN cpufreq_driver_resolve_freq(policy, out.freq)
                        ELSE 0
           done(r) ==
               /\ wg_policy' = r.p
               /\ policy' = r.pol
               /\ wg_cpu' = r.cpus
               /\ work' = r.wk
               /\ last' = RateDid("cb", r.out, cand(r.out), gate.p)
               /\ hist' = [rejected |->
                              RateRejected(hist.rejected, r.out, cand(r.out),
                                           r.p, gate.p),
                           retried |-> /\ r.out.committed
                                       /\ hist.rejected = cand(r.out)]
       IN  done(waltgov_update_freq(wg_policy, tunables, policy, wg_cpu,
                                    work, 0, now, flags, Sample(pr, now),
                                    config.rt_util))
    /\ UNCHANGED <<now, gov, config, tunables, stores, life, pc, locks>>

\* The cpufreq core sets new limits and calls limits(); on a fast-switch
\* domain limits() resolves policy->cur and passes it to
\* waltgov_update_next_freq.
RateLimits(lim) ==
    /\ ops < MaxRate
    /\ ops' = ops + 1
    /\ LET pol == [policy EXCEPT !.min = lim[1], !.max = lim[2]]
           cand == IF policy.fast_switch_enabled
                   THEN cpufreq_driver_resolve_freq(pol, pol.cur)
                   ELSE 0
           done(r) ==
               /\ wg_policy' = r.p
               /\ policy' = r.pol
               /\ last' = RateDid("limits",
                                  [r.out EXCEPT
                                      !.resolved = policy.fast_switch_enabled],
                                  cand, wg_policy)
               /\ hist' = [rejected |->
                              RateRejected(hist.rejected, r.out, 0, r.p,
                                           wg_policy),
                           retried |-> FALSE]
       IN  done(waltgov_limits(wg_policy, pol, now))
    /\ UNCHANGED <<now, gov, config, tunables, wg_cpu, work, stores, life,
                   pc, locks>>

NextRate ==
    \/ RateTick
    \/ \E flags \in RateFlagSets, pr \in SampleProfiles :
           RateCallback(flags, pr)
    \/ \E lim \in LimitPairs : RateLimits(lim)

SpecRate == InitRate /\ [][NextRate]_vars

(***************************************************************************)
(* Properties of the commit.                                               *)
(***************************************************************************)
\* The delay that applies to candidate cand on domain b has elapsed at time t.
DelayElapsed(b, cand, t) ==
    IF cand > b.next_freq
    THEN t - b.last_freq_update_time >= b.up_rate_delay_ns
    ELSE t - b.last_freq_update_time >= b.down_rate_delay_ns

\* The domain's recorded event flags carry the frame boost flag.
FrameBoostFlag(b) ==
    config.frame_boost /\ SCHED_CPUFREQ_DEF_FRAMEBOOST \in b.flags

\* C26 as stated: a resolved candidate is committed only if it differs from
\* next_freq and the applicable rate delay has elapsed since the last
\* commit; in every other case cached_raw_freq is 0 afterwards.
C26_CommitOnlyNewAndElapsed ==
    [][last'.out.resolved
          => IF last'.out.committed
             THEN /\ last'.cand # last'.before.next_freq
                  /\ DelayElapsed(last'.before, last'.cand, now)
             ELSE wg_policy'.cached_raw_freq = 0]_vars

\* C26, amended: a resolved candidate is committed exactly when it differs
\* from next_freq and either the applicable delay has elapsed or the
\* recorded event flags carry the frame boost flag; a commit writes the
\* candidate, the time and the frequency it was resolved from; a candidate
\* equal to next_freq leaves next_freq, cached_raw_freq and
\* last_freq_update_time alone; a candidate rejected by the rate limit sets
\* cached_raw_freq to 0 and leaves the other two alone.
C26_CommitIffNewAndNotLimited ==
    [][last'.out.resolved
          => /\ last'.out.committed
                   <=> /\ last'.cand # last'.before.next_freq
                       /\ \/ FrameBoostFlag(last'.before)
                          \/ DelayElapsed(last'.before, last'.cand, now)
             /\ last'.out.committed
                   => /\ wg_policy'.next_freq = last'.cand
                      /\ wg_policy'.last_freq_update_time = now
                      /\ wg_policy'.cached_raw_freq =
                             (IF last'.op = "cb" THEN last'.out.freq
                              ELSE last'.cand)
             /\ (~last'.out.committed
                    /\ last'.cand = last'.before.next_freq)
                   => CommitFields(wg_policy') = CommitFields(last'.before)
             /\ (~last'.out.committed
                    /\ last'.cand # last'.before.next_freq)
                   => /\ wg_policy'.cached_raw_freq = 0
                      /\ wg_policy'.next_freq = last'.before.next_freq
                      /\ wg_policy'.last_freq_update_time =
                             last'.before.last_freq_update_time]_vars

\* A callback resolved a candidate equal to next_freq: nothing was committed
\* and cached_raw_freq kept its non-zero value.
C26_Witness ==
    /\ last.op = "cb"
    /\ last.out.resolved /\ ~last.out.committed
    /\ last.cand = last.before.next_freq
    /\ wg_policy.cached_raw_freq # 0

\* The step resolved a candidate that differs from next_freq and did not
\* commit it: the rate limit rejected it.
RateLimited ==
    /\ last'.out.resolved
    /\ ~last'.out.committed
    /\ last'.cand # last'.before.next_freq

\* C27: a step whose candidate the rate limit rejects leaves next_freq,
\* last_freq_update_time, the hardware frequency and the pending work as
\* they are; while a rejected candidate stands, every callback that passes
\* the gate resolves again instead of taking the short-circuit, and when it
\* resolves the same candidate with the applicable delay elapsed it commits
\* it.
C27_RateLimitedIsRetried ==
    [][/\ RateLimited
           => /\ wg_policy'.next_freq = wg_policy.next_freq
              /\ wg_policy'.last_freq_update_time =
                     wg_policy.last_freq_update_time
              /\ policy'.cur = policy.cur
              /\ work' = work
              /\ wg_policy'.cached_raw_freq = 0
       /\ (hist.rejected # 0 /\ last'.op = "cb" /\ last'.out.recomputed)
           => /\ last'.out.resolved
              /\ (/\ last'.cand = hist.rejected
                  /\ DelayElapsed(last'.before, last'.cand, now))
                     => /\ last'.out.committed
                        /\ wg_policy'.next_freq = hist.rejected]_vars

\* After limits() lowered the maximum, the lower candidate of an unchanged
\* load was rejected by the down delay and a later callback has committed it.
C27_Witness ==
    /\ last.op = "cb"
    /\ hist.retried
    /\ last.out.freq = last.before.cached_raw_freq \/ last.before.cached_raw_freq = 0
    /\ wg_policy.next_freq = last.cand
    /\ last.cand < last.before.next_freq

(***************************************************************************)
(* Properties of the selector's short-circuit.                             *)
(***************************************************************************)
\* The step is a callback that passed the gate and ran the selector.
SelectorRan == last'.op = "cb" /\ last'.out.recomputed

\* The selector left the four fields of the commit as it found them.
SelectorTouchedNothing ==
    /\ wg_policy'.next_freq = last'.before.next_freq
    /\ wg_policy'.last_freq_update_time = last'.before.last_freq_update_time
    /\ wg_policy'.cached_raw_freq = last'.before.cached_raw_freq
    /\ wg_policy'.need_freq_update = last'.before.need_freq_update

\* C28 as stated: the selector returns without resolving exactly when the
\* computed frequency equals cached_raw_freq and need_freq_update is clear.
C28_ShortCircuitIffEqualCached ==
    [][SelectorRan
         => (~last'.out.resolved
                <=> /\ last'.out.freq = last'.before.cached_raw_freq
                    /\ ~last'.before.need_freq_update)]_vars

\* C28: the selector returns no-change without resolving exactly when
\* cached_raw_freq is non-zero, the computed frequency equals it and
\* need_freq_update is clear, and then next_freq, last_freq_update_time,
\* cached_raw_freq and need_freq_update are as it found them; when
\* need_freq_update is set it resolves and clears the flag.
C28_ShortCircuitIffNonZeroCached ==
    [][SelectorRan
         => /\ ~last'.out.resolved
                <=> /\ last'.before.cached_raw_freq # 0
                    /\ last'.out.freq = last'.before.cached_raw_freq
                    /\ ~last'.before.need_freq_update
            /\ ~last'.out.resolved
                => SelectorTouchedNothing /\ ~last'.out.committed
            /\ last'.before.need_freq_update
                => last'.out.resolved /\ ~wg_policy'.need_freq_update]_vars

\* A callback found its frequency cached and returned without resolving,
\* with a committed frequency in place.
C28_Witness ==
    /\ last.op = "cb"
    /\ last.out.recomputed
    /\ ~last.out.resolved
    /\ last.before.cached_raw_freq # 0
    /\ last.out.freq = last.before.cached_raw_freq
    /\ wg_policy.next_freq # 0

(***************************************************************************)
(* Properties of the override chain.                                       *)
(***************************************************************************)
SetMax(S) == CHOOSE x \in S : \A y \in S : x >= y

\* The utilization of CPU j the rules see: scaled by the early detection
\* boost when that is employed.
AdjCpuUtil(j) ==
    IF EmployEd(j)
    THEN (last.slots[j].util * (100 + config.ed_boost_pct)) \div 100
    ELSE last.slots[j].util

\* The rules of the chain for CPU j in the order of the code: whether the
\* rule applies, its candidate and the reason it records.
OverrideRules(j) ==
    LET load == last.slots[j].walt_load
        hiload == AdjCpuUtil(j) >= HiloadAt
    IN  << [on |-> EmployEd(j), cand |-> AdjCpuUtil(j),
            reason |-> CPUFREQ_REASON_EARLY_DET],
           [on |-> load.rtgb_active, cand |-> wg_policy.rtg_boost_util,
            reason |-> CPUFREQ_REASON_RTG_BOOST],
           [on |-> hiload /\ WALT_CPUFREQ_IC_MIGRATION
                                \notin last.slots[j].flags,
            cand |-> wg_policy.hispeed_util,
            reason |-> CPUFREQ_REASON_HISPEED],
           [on |-> hiload /\ load.nl >= (AdjCpuUtil(j) * NL_RATIO) \div 100,
            cand |-> last.tr[j].max_in, reason |-> CPUFREQ_REASON_NWD],
           [on |-> tunables.pl,
            cand |-> IF config.conservative_pl
                     THEN (load.pl * TARGET_LOAD) \div 100 ELSE load.pl,
            reason |-> CPUFREQ_REASON_PL],
           [on |-> load.big_task_rotation, cand |-> last.tr[j].max_in,
            reason |-> CPUFREQ_REASON_BTR] >>

\* The rules that apply to CPU j with a non-zero candidate.
LiveRules(j) ==
    { i \in 1..6 : OverrideRules(j)[i].on /\ OverrideRules(j)[i].cand # 0 }

\* The maximum of the incoming utilization and the live candidates.
OverrideMax(j) ==
    SetMax({last.tr[j].util_in}
               \cup { OverrideRules(j)[i].cand : i \in LiveRules(j) })

\* The live rules whose candidate is that maximum.
Winners(j) == { i \in LiveRules(j) : OverrideRules(j)[i].cand = OverrideMax(j) }

\* Early detection is added to the reasons after the predicted-load rule.
EdAdded(j, last_rule) ==
    IF EmployEd(j) /\ last_rule # 6 THEN {CPUFREQ_REASON_EARLY_DET} ELSE {}

\* C29: for each CPU the chain leaves the running utilization at the maximum
\* of its incoming value and the non-zero candidates of the rules that apply
\* to the CPU; it never lowers it; the reason recorded is that of the last
\* rule in the order of the chain whose non-zero candidate reaches that
\* maximum (a tie with the running value wins), and with no such rule
\* (candidates below the running value, or zero) the reasons stay.
C29_ChainTakesMaximum ==
    last.op = "adjust"
        => \A j \in policy.cpus :
              /\ last.tr[j].util_out = OverrideMax(j)
              /\ last.tr[j].util_out >= last.tr[j].util_in
              /\ wg_cpu[j].reasons
                   = IF Winners(j) = {}
                     THEN last.slots[j].reasons \cup EdAdded(j, 0)
                     ELSE {OverrideRules(j)[SetMax(Winners(j))].reason}
                              \cup EdAdded(j, SetMax(Winners(j)))

\* The first CPU's new-task rule raised the running utilization to the
\* capacity, and the second CPU's big task rotation candidate equals it and
\* wins the tie.
C29_Witness ==
    /\ last.op = "adjust"
    /\ \E j \in policy.cpus :
          /\ Winners(j) # {}
          /\ OverrideMax(j) = last.tr[j].util_in
          /\ last.tr[j].util_in > last.tr[j].j_util
          /\ wg_cpu[j].reasons = {CPUFREQ_REASON_BTR}
    /\ \E j \in policy.cpus :
          /\ 4 \in Winners(j)
          /\ last.tr[j].util_out > last.tr[j].util_in

\* The new-task wakeup rule was applied to CPU j in the last aggregation.
NewTaskApplied(j) == last.tr[j].nwd

\* C30 as stated: the new-task wakeup rule is applied to a CPU only when the
\* CPU is above hispeed_load percent of avg_cap, is not mid-migration and has
\* a new-task load of at least 75 percent of its utilization; whenever it is
\* applied the aggregated utilization is at least the capacity.
C30_NewTaskOnlyOffMigration ==
    last.op = "adjust"
        => \A j \in policy.cpus :
              NewTaskApplied(j)
                 => /\ last.slots[j].util >= HiloadAt
                    /\ WALT_CPUFREQ_IC_MIGRATION \notin last.slots[j].flags
                    /\ last.slots[j].walt_load.nl
                         >= (last.slots[j].util * NL_RATIO) \div 100
                    /\ last.util >= last.max

\* C30: the new-task wakeup rule is applied to a CPU exactly when its
\* utilization (scaled by the early detection boost when that is employed)
\* is at or above hispeed_load percent of avg_cap and its new-task load is
\* at least 75 percent of that utilization, mid-migration or not; whenever
\* it is applied the running utilization after the CPU is at least the
\* running capacity, and so is the aggregated utilization of the domain.
C30_NewTaskWhateverMigration ==
    last.op = "adjust"
        => \A j \in policy.cpus :
              /\ NewTaskApplied(j)
                   <=> /\ AdjCpuUtil(j) >= HiloadAt
                       /\ last.slots[j].walt_load.nl
                            >= (AdjCpuUtil(j) * NL_RATIO) \div 100
              /\ NewTaskApplied(j)
                   => /\ last.slots[j].util >= HiloadAt
                      /\ last.slots[j].walt_load.nl
                           >= (last.slots[j].util * NL_RATIO) \div 100
                      /\ last.tr[j].util_out >= last.tr[j].max_in
                      /\ last.tr[j].max_in = wg_policy.max
                      /\ last.util >= last.max

\* The rule raised the utilization of a CPU mid-migration to the capacity.
C30_Witness ==
    /\ last.op = "adjust"
    /\ \E j \in policy.cpus :
          /\ NewTaskApplied(j)
          /\ WALT_CPUFREQ_IC_MIGRATION \in last.slots[j].flags
          /\ last.tr[j].util_in < last.tr[j].max_in
          /\ last.tr[j].util_out = last.tr[j].max_in
          /\ CPUFREQ_REASON_NWD \in wg_cpu[j].reasons

(***************************************************************************)
(* The mapping specification: get_next_freq on aggregated pairs below, at  *)
(* and above target_load_thresh, with the rt utilization below and above a *)
(* quarter of the capacity.                                                *)
(***************************************************************************)
\* Selections per behaviour.
MaxMap == 2

MapUtils == {0, 300, 512, 600, 1024, 1200}
MapCaps == {1, 512, 1024}

MapTunables ==
    { [DefaultTunables EXCEPT !.target_load_thresh = th,
                              !.target_load_shift = sh] :
        th \in {512, 1024}, sh \in {2, 4} }

InitMap ==
    /\ now = T0
    /\ gov = "started"
    /\ config \in [frame_boost : {FALSE}, div0_traps : {FALSE},
                   ed_boost_pct : {0}, conservative_pl : {FALSE},
                   rt_util : {0, 300}]
    /\ tunables \in MapTunables
    /\ wg_policy = waltgov_start(ZeroPolicy, tunables)
    /\ wg_cpu = [c \in Cpus |-> ZeroCpu]
    /\ policy = [cpu |-> 0, cpus |-> {0}, cur |-> 100, min |-> 100,
                 max |-> 400, cpuinfo_max_freq |-> 400,
                 freq_table |-> FreqTable, fast_switch_enabled |-> TRUE,
                 is_min_cluster |-> FALSE]
    /\ work = NoWork
    /\ last = [op |-> "start"]
    /\ hist = HistInit
    /\ stores = 0
    /\ ops = 0
    /\ life = LifeOf(gov, policy)
    /\ pc = NoThreads
    /\ locks = NoLocks

\* get_next_freq on the winning pair (util, cap).
MapSelect(util, cap) ==
    /\ ops < MaxMap
    /\ ops' = ops + 1
    /\ LET done(g) ==
               /\ wg_policy' = g.p
               /\ wg_cpu' = g.cpus
               /\ last' = [op |-> "select", util |-> util, cap |-> cap,
                           raw_freq |-> g.raw_freq]
       IN  done(get_next_freq(wg_policy, tunables, policy, wg_cpu, util, cap,
                              now, config.rt_util))
    /\ UNCHANGED <<pc, locks, life, now, gov, config, tunables, policy, work,
                   hist, stores>>

NextMap == \E util \in MapUtils, cap \in MapCaps : MapSelect(util, cap)

SpecMap == InitMap /\ [][NextMap]_vars

\* max_freq + max_freq / 4
Headroom == policy.cpuinfo_max_freq + policy.cpuinfo_max_freq \div 4

\* The pair takes the high-utilization branch: util at or above
\* target_load_thresh and the rt utilization under a quarter of the capacity.
HighUtil ==
    /\ last.util >= tunables.target_load_thresh
    /\ config.rt_util < last.cap \div 4

\* C31 as stated: the winning pair maps to
\* raw_freq = (max_freq + max_freq / 4) * util / max_capacity for every
\* utilization and capacity.
C31_RawFreqLinear ==
    last.op = "select" => last.raw_freq = (Headroom * last.util) \div last.cap

\* C31: the winning pair maps to (max_freq + max_freq / 4) * util / capacity
\* when util is below target_load_thresh or the rt utilization is at least a
\* quarter of the capacity; otherwise to the larger of
\* (max_freq + (max_freq >> target_load_shift)) * util and
\* (max_freq + max_freq / 4) * target_load_thresh, divided by the capacity.
C31_RawFreqTwoSlopes ==
    last.op = "select"
        => last.raw_freq
             = IF HighUtil
               THEN SetMax({ (policy.cpuinfo_max_freq
                                + policy.cpuinfo_max_freq
                                    \div (2 ^ tunables.target_load_shift))
                               * last.util,
                             Headroom * tunables.target_load_thresh })
                        \div last.cap
               ELSE (Headroom * last.util) \div last.cap

\* A pair above the threshold mapped below the 1.25x line.
C31_Witness ==
    /\ last.op = "select"
    /\ HighUtil
    /\ last.util > tunables.target_load_thresh
    /\ last.raw_freq < (Headroom * last.util) \div last.cap
    /\ last.raw_freq > (Headroom * tunables.target_load_thresh) \div last.cap

(***************************************************************************)
(* Properties of limits().                                                 *)
(***************************************************************************)
\* The step is the last one of limits() on a fast-switch domain: the body
\* under update_lock, the unlock and limits_changed = true.
LimitsFastReturns ==
    /\ policy.fast_switch_enabled
    /\ pc["limits"].at = "locked"
    /\ pc'["limits"].at = "idle"

\* The step is the last one of limits() on a deferred domain.
LimitsDeferredReturns ==
    /\ pc["limits"].at = "apply"
    /\ pc'["limits"].at = "idle"

\* policy->cur brought inside the limits.
WithinLimits(pol) ==
    IF pol.cur > pol.max THEN cpufreq_driver_resolve_freq(pol, pol.max)
    ELSE IF pol.cur < pol.min THEN cpufreq_driver_resolve_freq(pol, pol.min)
    ELSE pol.cur

\* The effect of the fast path on a candidate f.
LimitsFastEffect(f) ==
    IF /\ f # wg_policy.next_freq
       /\ DelayElapsed(wg_policy, f, now) \/ FrameBoostFlag(wg_policy)
    THEN /\ wg_policy'.next_freq = f
         /\ wg_policy'.last_freq_update_time = now
         /\ wg_policy'.cached_raw_freq = f
         /\ policy'.cur = f
    ELSE /\ wg_policy'.next_freq = wg_policy.next_freq
         /\ wg_policy'.last_freq_update_time = wg_policy.last_freq_update_time
         /\ policy'.cur = policy.cur

LimitsStep ==
    /\ LimitsFastReturns
          => /\ locks.update_lock = "limits"
             /\ wg_policy'.limits_changed
             /\ LimitsFastEffect(cpufreq_driver_resolve_freq(policy,
                                                             policy.cur))
    /\ LimitsDeferredReturns
          => /\ locks.work_lock = "limits"
             /\ wg_policy'.limits_changed
             /\ policy'.cur = WithinLimits(policy)
    /\ (~policy.fast_switch_enabled /\ pc'["limits"] # pc["limits"])
          => wg_policy'.next_freq = wg_policy.next_freq

\* C32: limits() returns with limits_changed set on both dispatch paths; on
\* a fast-switch domain it resolves policy->cur against the new limits under
\* update_lock and, if the result differs from next_freq and passes the rate
\* limit, commits it (next_freq, last_freq_update_time, cached_raw_freq) and
\* writes it to the hardware, and otherwise leaves them; on a deferred domain
\* it applies the limits under work_lock and no step of it changes next_freq.
C32_LimitsBothPaths == [][LimitsStep]_vars

\* limits() on a fast-switch domain has committed the frequency it resolved
\* inside the new limits and has written it to the hardware.
C32_Witness ==
    /\ last.op = "limits"
    /\ policy.fast_switch_enabled
    /\ last.out.committed
    /\ wg_policy.limits_changed
    /\ policy.cur = wg_policy.next_freq
    /\ wg_policy.cached_raw_freq = policy.cur
    /\ wg_policy.last_freq_update_time = now

(***************************************************************************)
(* Properties of the hispeed_load store.                                   *)
(***************************************************************************)
\* A callback runs its aggregation, which reads hispeed_load, in this step.
CallbackAggregates ==
    \E t \in CallbackThreads : pc[t].at = "locked" /\ pc'[t].at # "locked"

\* C33: every aggregation of an update callback reads a hispeed_load within
\* 0..100, also while a store of a larger value is in progress.
C33_HispeedLoadClampedForCallbacks ==
    [][CallbackAggregates => tunables.hispeed_load \in 0..100]_vars

\* hispeed_load is within 0..100 whenever no store of it is in progress.
C33_ClampedBetweenStores ==
    pc["store"].at # "hispeed_load_clamp" => tunables.hispeed_load \in 0..100

\* A callback holds update_lock, about to aggregate, while hispeed_load is
\* the parsed 150.
C33_UnclampedSeen ==
    /\ \E t \in CallbackThreads : pc[t].at = "locked"
    /\ tunables.hispeed_load = 150

(***************************************************************************)
(* The choose_freq specification (builds with CONFIG_OPLUS_FEATURE_SUGOV_TL):*)
(* one step per iteration of its do-while loop, over every current         *)
(* frequency of the table, limits around and inside it, and target_loads   *)
(* tables as target_loads_store accepts them.                              *)
(***************************************************************************)
\* Calls of choose_freq per behaviour.
MaxChoose == 2

\* Stands for UINT_MAX: above every frequency of a table.
UINT_MAX == 2147483647

\* tunables->target_loads: a load, then (frequency, load) pairs.
ChooseTargetLoads ==
    { <<80>>, <<0>>, <<90, 200, 50>>, <<50, 300, 95>>, <<1, 200, 100>>,
      <<95, 200, 0, 300, 60>> }

ChooseFreqTables == {FreqTable, {200, 400}}

\* loadadjfreq: prev_freq * util * 100 / max.
ChooseLoadAdjFreqs == {0, 7900, 8000, 16100, 24000, 27000, 36000, 44000}

\* freq_to_targetload: the load of the last pair whose frequency is at or
\* below freq.
RECURSIVE freq_to_targetload_from(_, _, _)
freq_to_targetload_from(loads, freq, i) ==
    IF i < Len(loads) /\ freq >= loads[i + 1]
    THEN freq_to_targetload_from(loads, freq, i + 2)
    ELSE loads[i]

freq_to_targetload(tun, freq) ==
    freq_to_targetload_from(tun.target_loads, freq, 1)

\* cpufreq_frequency_table_target(policy, target, CPUFREQ_RELATION_H): clamp
\* to the policy limits, then the highest table frequency at or below the
\* target (the lowest one if none is).
cpufreq_frequency_table_target_h(pol, target_freq) ==
    LET highest(below) ==
            IF below # {}
            THEN CHOOSE f \in below : \A g \in below : f >= g
            ELSE CHOOSE f \in pol.freq_table :
                     \A g \in pol.freq_table : g >= f
        clamped(t) == highest({f \in pol.freq_table : f <= t})
    IN  clamped(Max(pol.min, Min(pol.max, target_freq)))

\* Variant of choose_freq_iteration that never narrows the bounds: it
\* probes until the frequency repeats.
choose_freq_iteration_unbounded(l, quot, pol) ==
    LET probed(freq) == [l EXCEPT !.freq = freq,
                                  !.at = IF freq = l.freq THEN "done"
                                         ELSE "loop"]
    IN  probed(cpufreq_driver_resolve_freq(pol, quot))

\* One iteration of the do-while loop of choose_freq on the loop variables
\* l (freq, freqmin, freqmax), with quot = loadadjfreq / tl; at becomes
\* "done" when the loop is left.
choose_freq_iteration(l, quot, pol) ==
    LET prevfreq == l.freq
        again(x) == [x EXCEPT !.at = IF x.freq # prevfreq THEN "loop"
                                     ELSE "done"]
        raised(freq) ==
            IF freq >= l.freqmax
            THEN IF cpufreq_frequency_table_target_h(pol, l.freqmax - 1)
                      = prevfreq
                 THEN [l EXCEPT !.freqmin = prevfreq, !.freq = l.freqmax,
                                !.at = "done"]
                 ELSE again([l EXCEPT
                                !.freqmin = prevfreq,
                                !.freq = cpufreq_frequency_table_target_h(
                                             pol, l.freqmax - 1)])
            ELSE again([l EXCEPT !.freqmin = prevfreq, !.freq = freq])
        lowered(freq) ==
            IF freq <= l.freqmin
            THEN IF cpufreq_driver_resolve_freq(pol, l.freqmin + 1) = prevfreq
                 THEN [l EXCEPT !.freqmax = prevfreq, !.freq = prevfreq,
                                !.at = "done"]
                 ELSE again([l EXCEPT
                                !.freqmax = prevfreq,
                                !.freq = cpufreq_driver_resolve_freq(
                                             pol, l.freqmin + 1)])
            ELSE again([l EXCEPT !.freqmax = prevfreq, !.freq = freq])
        probed(freq) ==
            IF freq > prevfreq THEN raised(freq)
            ELSE IF freq < prevfreq THEN lowered(freq)
            ELSE [l EXCEPT !.at = "done"]
    IN  probed(cpufreq_driver_resolve_freq(pol, quot))

ChooseIdle == [at |-> "idle", freq |-> 0, freqmin |-> 0, freqmax |-> 0,
               loadadjfreq |-> 0]

InitChoose ==
    /\ now = T0
    /\ gov = "started"
    /\ config \in [frame_boost : {FALSE}, div0_traps : BOOLEAN,
                   ed_boost_pct : {0}, conservative_pl : {FALSE},
                   rt_util : {0}]
    /\ tunables \in { DefaultTunables @@ [target_loads |-> tl] :
                        tl \in ChooseTargetLoads }
    /\ wg_policy = waltgov_start(ZeroPolicy, tunables)
    /\ wg_cpu = [c \in Cpus |-> ZeroCpu]
    /\ policy \in { p \in [cpu : {0}, cpus : {{0}}, cur : FreqTable,
                            min : {100, 200}, max : {300, 400},
                            cpuinfo_max_freq : {400},
                            freq_table : ChooseFreqTables,
                            fast_switch_enabled : {TRUE},
                            is_min_cluster : {FALSE}] :
                        p.cur \in p.freq_table }
    /\ work = NoWork
    /\ last = [op |-> "start"]
    /\ hist = ChooseIdle
    /\ stores = 0
    /\ ops = 0
    /\ life = LifeOf(gov, policy)
    /\ pc = NoThreads
    /\ locks = NoLocks

\* choose_freq is entered: freq = policy->cur, freqmin = 0,
\* freqmax = UINT_MAX.
ChooseBegin(loadadjfreq) ==
    /\ ops < MaxChoose
    /\ hist.at \in {"idle", "done"}
    /\ ops' = ops + 1
    /\ hist' = [at |-> "loop", freq |-> policy.cur, freqmin |-> 0,
                freqmax |-> UINT_MAX, loadadjfreq |-> loadadjfreq]
    /\ last' = [op |-> "choose_freq"]
    /\ UNCHANGED <<now, gov, config, tunables, wg_policy, wg_cpu, policy,
                   work, stores, life, pc, locks>>

\* One iteration.  A target load of 0 makes loadadjfreq / tl a division by
\* zero: undefined behaviour, which yields 0 (arm64 udiv) or traps.
ChooseIterate ==
    /\ hist.at = "loop"
    /\ LET tl == freq_to_targetload(tunables, hist.freq)
       IN  hist' = IF tl = 0 /\ config.div0_traps
                   THEN [hist EXCEPT !.at = "trap"]
                   ELSE choose_freq_iteration(
                            hist,
                            IF tl = 0 THEN 0 ELSE hist.loadadjfreq \div tl,
                            policy)
    /\ last' = [op |-> "iteration"]
    /\ UNCHANGED <<now, gov, config, tunables, wg_policy, wg_cpu, policy,
                   work, stores, ops, life, pc, locks>>

NextChoose ==
    \/ \E loadadjfreq \in ChooseLoadAdjFreqs : ChooseBegin(loadadjfreq)
    \/ ChooseIterate

\* The loop is never preempted for ever.
SpecChooseFair ==
    InitChoose /\ [][NextChoose]_vars /\ WF_vars(ChooseIterate)

\* No load of the target_loads table is 0.
PositiveLoads ==
    \A i \in 1..Len(tunables.target_loads) :
        i % 2 = 1 => tunables.target_loads[i] # 0

\* Every call of choose_freq leaves its loop, with a frequency of the table.
ChooseFreqReturns ==
    /\ (hist.at = "loop") ~> (hist.at = "done")
    /\ [](hist.at = "done" => hist.freq \in policy.freq_table)

C34_TerminatesForPositiveLoads == PositiveLoads => ChooseFreqReturns

\* choose_freq divides by a target load of 0 and traps.
C34_DivisionByZero == hist.at = "trap"

\* The loop was left because the bounds collapsed.
C34_BoundsCollapsed ==
    hist.at = "done" /\ hist.freqmin # 0 /\ hist.freqmax # UINT_MAX

(***************************************************************************)
(* The state of a domain that has just been started.                       *)
(***************************************************************************)
StartStep == gov # "started" /\ gov' = "started"

\* What waltgov_start leaves of the previous run in the domain.
StartedClean(p, tun) ==
    /\ p.next_freq = 0
    /\ p.cached_raw_freq = 0
    /\ p.last_freq_update_time = 0
    /\ ~p.limits_changed
    /\ ~p.need_freq_update
    /\ p.up_rate_delay_ns = tun.up_rate_limit_us * NSEC_PER_USEC
    /\ p.down_rate_delay_ns = tun.down_rate_limit_us * NSEC_PER_USEC
    /\ p.min_rate_limit_ns = IF p.up_rate_delay_ns < p.down_rate_delay_ns
                             THEN p.up_rate_delay_ns
                             ELSE p.down_rate_delay_ns

\* C35: every start of the domain, the first one and a restart after a stop,
\* leaves next_freq, cached_raw_freq and last_freq_update_time at zero, both
\* pending-change flags false, the two delays at the tunables' microseconds
\* times 1000, min_rate_limit_ns at the smaller of them, and every slot of
\* policy->cpus zeroed and bound to the domain; no callback of the domain is
\* registered before the step and all of them are after it.
C35_StartGivesCleanState ==
    [][StartStep =>
          /\ StartedClean(wg_policy', tunables')
          /\ \A c \in policy.cpus :
                 /\ wg_cpu'[c] = ZeroCpu
                 /\ life'.wg_policy_ptr[c] = "live"
          /\ life.cb \cap policy.cpus = {}
          /\ policy.cpus \subseteq life'.cb]_vars

\* A restart: the domain ran before (a callback stored the capacity, the
\* hardware left its first frequency), the rate limits were given, and the
\* start has just run.
C35_Witness ==
    /\ last.op = "start"
    /\ gov = "started"
    /\ wg_policy.max # 0
    /\ policy.cur # 100
    /\ tunables.up_rate_limit_us # tunables.down_rate_limit_us
    /\ tunables.down_rate_limit_us # 0

(***************************************************************************)
(* The cached utilisations specification: a fast-switch domain of the      *)
(* little or of another cluster, set up with default or restored tunables, *)
(* whose CPU changes its capacity while the tunables target_util reads are *)
(* written.                                                                *)
(***************************************************************************)
\* What the CPU shows to a callback: two capacities.
UtilProfiles ==
    { [util |-> 300, max |-> m, nl |-> 0, pl |-> 0, rtgb_active |-> FALSE,
       ed_active |-> FALSE, big_task_rotation |-> FALSE] : m \in {512, 1024} }

\* Tunables of a first init and tunables waltgov_tunables_restore brought
\* back.
UtilTunables ==
    { DefaultTunables,
      [DefaultTunables EXCEPT !.hispeed_freq = 300, !.rtg_boost_freq = 200],
      [DefaultTunables EXCEPT !.hispeed_freq = 300, !.rtg_boost_freq = 200,
                              !.target_load_thresh = 600] }

InitUtil ==
    /\ now = T0
    /\ gov = "initialized"
    /\ config = [frame_boost |-> FALSE, div0_traps |-> FALSE,
                 ed_boost_pct |-> 0, conservative_pl |-> FALSE, rt_util |-> 0]
    /\ tunables \in UtilTunables
    /\ wg_policy = ZeroPolicy
    /\ wg_cpu = [c \in Cpus |-> ZeroCpu]
    /\ policy \in [cpu : {0}, cpus : {{0}}, cur : {100}, min : {100},
                   max : {400}, cpuinfo_max_freq : {400},
                   freq_table : {FreqTable},
                   fast_switch_enabled : {TRUE}, is_min_cluster : BOOLEAN]
    /\ work = NoWork
    /\ last = Other("init")
    /\ hist = HistInit
    /\ stores = 0
    /\ ops = 0
    /\ life = LifeOf(gov, policy)
    /\ pc = NoThreads
    /\ locks = NoLocks

NextUtil ==
    \/ Start
    \/ Stop
    \/ \E pr \in UtilProfiles : Callback(0, {}, pr)
    \/ \E v \in {200, 400} : HispeedFreqStore(v)
    \/ \E v \in {300} : RtgBoostFreqStore(v)
    \/ \E v \in {512, 600, 900} : AttrStore("target_load_thresh", v)

SpecUtil == InitUtil /\ [][NextUtil]_vars

\* Both cached utilisations are what target_util gives now.
CachedUtilsCurrent ==
    /\ wg_policy.hispeed_util
         = target_util(wg_policy, tunables, policy, tunables.hispeed_freq)
    /\ wg_policy.rtg_boost_util
         = target_util(wg_policy, tunables, policy, tunables.rtg_boost_freq)

\* C36: whenever no tunable write is under way and update_lock is free (every
\* state of this specification, whose handlers are single steps),
\* hispeed_util = target_util(hispeed_freq) and rtg_boost_util =
\* target_util(rtg_boost_freq) for the current capacity and tunables, after
\* init, capacity changes and writes of hispeed_freq, rtg_boost_freq and
\* target_load_thresh.
C36_CachedUtilsCurrent == CachedUtilsCurrent

\* The step writes target_load_thresh on a domain of the little cluster.
ThreshWritten ==
    /\ policy.is_min_cluster
    /\ tunables'.target_load_thresh # tunables.target_load_thresh

\* What holds: the domain starts with both cached utilisations current, and
\* every step but a write of target_load_thresh on the little cluster keeps
\* them current.
C36_CurrentButForThresh ==
    /\ wg_policy = ZeroPolicy => CachedUtilsCurrent
    /\ [][CachedUtilsCurrent /\ ~ThreshWritten => CachedUtilsCurrent']_vars

\* A callback that saw the capacity change recomputed both utilisations
\* from restored tunables.
C36_Recomputed ==
    /\ last.op = "cb"
    /\ wg_policy.max = 512
    /\ wg_policy.hispeed_util # 0
    /\ wg_policy.rtg_boost_util # 0
    /\ CachedUtilsCurrent

\* The write of target_load_thresh left both cached utilisations at the
\* values of the threshold it replaced.
C36_StaleAfterThresh ==
    /\ last.op = "store_attr"
    /\ policy.is_min_cluster
    /\ wg_policy.hispeed_util
         # target_util(wg_policy, tunables, policy, tunables.hispeed_freq)
    /\ wg_policy.rtg_boost_util
         # target_util(wg_policy, tunables, policy, tunables.rtg_boost_freq)

(***************************************************************************)
(* The aggregation specification: a domain of three CPUs just started,     *)
(* whose callbacks sample their own CPU and aggregate over all three       *)
(* slots, the slots of the CPUs without a callback yet being as            *)
(* waltgov_start zeroed them.                                              *)
(***************************************************************************)
\* Callbacks per behaviour.
MaxAgg == 3

AggCpus == {0, 1, 2}

\* What waltgov_get_util finds on a CPU: idle, light, lighter, loaded with
\* new tasks.
AggProfiles ==
    { [util |-> 0, max |-> 1024, nl |-> 0, pl |-> 0, rtgb_active |-> FALSE,
       ed_active |-> FALSE, big_task_rotation |-> FALSE],
      [util |-> 300, max |-> 1024, nl |-> 0, pl |-> 0, rtgb_active |-> FALSE,
       ed_active |-> FALSE, big_task_rotation |-> FALSE],
      [util |-> 100, max |-> 1024, nl |-> 0, pl |-> 0, rtgb_active |-> FALSE,
       ed_active |-> FALSE, big_task_rotation |-> FALSE],
      [util |-> 950, max |-> 1024, nl |-> 900, pl |-> 600,
       rtgb_active |-> FALSE, ed_active |-> FALSE,
       big_task_rotation |-> FALSE] }

InitAgg ==
    /\ now = T0
    /\ gov = "started"
    /\ config = [frame_boost |-> FALSE, div0_traps |-> FALSE,
                 ed_boost_pct |-> 0, conservative_pl |-> FALSE, rt_util |-> 0]
    /\ \E b \in {0, 50}, hf \in {0, 1200000} :
           tunables = [DefaultTunables EXCEPT !.boost = b, !.hispeed_freq = hf]
    /\ \E avg_cap \in {0, 1000} : wg_policy = SelDomain(tunables, avg_cap)
    /\ wg_cpu = [c \in AggCpus |-> ZeroCpu]
    /\ policy = [SelPolicy EXCEPT !.cpus = AggCpus]
    /\ work = NoWork
    /\ last = [op |-> "start"]
    /\ hist = HistInit
    /\ stores = 0
    /\ ops = 0
    /\ life = LifeOf(gov, policy)
    /\ pc = NoThreads
    /\ locks = NoLocks

\* The callback of CPU c up to the call of get_next_freq: the sample goes
\* into the CPU's slot and the for_each_cpu loop runs over policy->cpus.
\* The domain already holds the capacity the samples carry, so the
\* recomputation of the cached utilisations is not taken.
AggCallback(c, pr) ==
    /\ ops < MaxAgg
    /\ ops' = ops + 1
    /\ LET done(slots, a) ==
               /\ wg_policy' = [wg_policy EXCEPT
                                   !.driving_cpu = a.driving_cpu,
                                   !.newtask_flag = a.newtask_flag]
               /\ wg_cpu' = [k \in AggCpus |->
                                [slots[k] EXCEPT !.reasons = a.reasons[k]]]
               /\ last' = [op |-> "aggregate", util |-> a.util,
                           max |-> a.max, slots |-> slots]
           sampled(slots) ==
               done(slots,
                    next_freq_shared_agg(wg_policy, tunables, policy, slots))
       IN  sampled(waltgov_sample(wg_cpu, c, {}, Sample(pr, now)))
    /\ UNCHANGED <<pc, locks, life, now, gov, config, tunables, policy, work,
                   hist, stores>>

NextAgg == \E c \in AggCpus, pr \in AggProfiles : AggCallback(c, pr)

SpecAgg == InitAgg /\ [][NextAgg]_vars

\* The utilization of a slot as the loop compares it: scaled by the boost.
BoostScaled(util) ==
    IF tunables.boost # 0 THEN mult_frac(util, tunables.boost + 100, 100)
    ELSE util

\* The aggregated pair is at or above the ratio of every CPU of the domain.
Dominates ==
    \A j \in policy.cpus :
        last.util * last.slots[j].max
            >= BoostScaled(last.slots[j].util) * last.max

\* A slot no callback has filled since the start.
Unsampled(slot) == slot.max = 0

\* C37: after an aggregation the pair (util, max) satisfies
\* util * j_max >= j_util * max for every CPU j of the domain, j_util scaled
\* by the boost; max is the capacity of a CPU of the domain and driving_cpu
\* is a CPU of the domain.
C37_AggregateDominates ==
    last.op = "aggregate"
        => /\ Dominates
           /\ \E j \in policy.cpus : /\ last.max = last.slots[j].max
                                     /\ last.max >= 1
           /\ wg_policy.driving_cpu \in policy.cpus

\* What holds: the statement, for an aggregation over slots that callbacks
\* have all filled; and for every aggregation, max is the max field of a slot
\* of the domain and driving_cpu is a CPU of the domain.
C37_DominatesOnceSampled ==
    last.op = "aggregate"
        => /\ (\A j \in policy.cpus : ~Unsampled(last.slots[j]))
                  => /\ Dominates
                     /\ last.max >= 1
           /\ \E j \in policy.cpus : last.max = last.slots[j].max
           /\ wg_policy.driving_cpu \in policy.cpus

\* All three CPUs sampled, and the second one wins the comparison.
C37_AllSampled ==
    /\ last.op = "aggregate"
    /\ \A j \in policy.cpus : ~Unsampled(last.slots[j])
    /\ wg_policy.driving_cpu = 1
    /\ last.util > BoostScaled(last.slots[0].util)
    /\ last.util > BoostScaled(last.slots[2].util)

\* The zeroed slot of CPU 1 took the pair of CPU 0 away and CPU 2 set it to
\* its own lower ratio.
C37_LoadedCpuForgotten ==
    /\ last.op = "aggregate"
    /\ Unsampled(last.slots[1])
    /\ last.max = 1024
    /\ last.util < BoostScaled(last.slots[0].util)

\* The aggregation ended on a zeroed slot: max is 0.
C37_ZeroCapacity ==
    /\ last.op = "aggregate"
    /\ last.max = 0

\* The per-CPU pointer the call follows points to a domain that has been
\* freed.
CallOnFreedDomain ==
    /\ last'.op \in ApiOps
    /\ PtrOf(life, last'.arg) = "freed"

\* C38: a call of the adaptive-frequency interface (set, get, reset) for a
\* CPU whose domain waltgov_stop and waltgov_exit have released does not
\* access the freed domain or its tunables: it returns an error and touches
\* nothing, in every interleaving of calls with init, start, stop and exit.
C38_ApiSparesFreedDomain ==
    [][CallOnFreedDomain =>
          /\ last'.ret \in ApiErrors
          /\ life' = life
          /\ tunables' = tunables]_vars

\* What holds: the per-CPU pointer dangles only from waltgov_exit to the
\* next waltgov_start of the CPU (while the governor is started or stopped
\* the pointers of policy->cpus point to the live domain), and a call that
\* follows a live pointer uses no freed memory.
C38_DanglingFromExitToStart ==
    /\ \A c \in Cpus :
           life.wg_policy_ptr[c] = "freed"
               => ~(gov \in {"started", "stopped"} /\ c \in policy.cpus)
    /\ [][(last'.op \in ApiOps /\ PtrOf(life, last'.arg) = "live")
              => /\ life'.api_uaf = life.api_uaf
                 /\ life'.fault = life.fault]_vars

\* A call after exit went through the dangling pointer and returned
\* success.
C38_FreedDomainUsed ==
    /\ last.op \in ApiOps
    /\ last.ret = "0"
    /\ life.api_uaf
    /\ life.domain = "freed"

\* A call between the next init and its start did the same, beside a live
\* domain.
C38_FreedDomainUsedAfterInit ==
    /\ last.op \in ApiOps
    /\ life.api_uaf
    /\ life.domain = "live"
    /\ gov = "initialized"
    /\ life.wg_policy_ptr[last.arg] = "freed"

(***************************************************************************)
(* The stale timestamp specification: the callbacks of two CPUs, limits()  *)
(* and the deferred work interleaved as in the concurrent specification,   *)
(* the callbacks of a frame boost build carrying the frame boost flag or   *)
(* not.  A callback's timestamp and sample are taken when it begins; the   *)
(* clock may advance before it gets update_lock.                           *)
(***************************************************************************)
StaleFlags ==
    {{}} \cup (IF config.frame_boost THEN {{SCHED_CPUFREQ_DEF_FRAMEBOOST}}
               ELSE {})

NextStale ==
    \/ ConcTick
    \/ \E t \in {"cb0", "cb1"}, flags \in StaleFlags, pr \in ConcProfiles :
           CbBegin(t, flags, pr)
    \/ \E t \in {"cb0", "cb1"} : CbLock(t)
    \/ \E t \in {"cb0", "cb1"} : CbLocked(t)
    \/ \E lim \in { <<100, 200>>, <<300, 400>> } : LimitsBegin(lim)
    \/ LimitsWorkLock
    \/ LimitsLock
    \/ LimitsLocked
    \/ LimitsApply
    \/ ConcIrqWork
    \/ KthreadBegin
    \/ KthreadLock
    \/ KthreadLocked
    \/ KthreadWorkLock
    \/ KthreadTarget

SpecStale == InitConc /\ [][NextStale]_vars

\* C39: waltgov_track_cycles never runs with a timestamp earlier than
\* last_cyc_update_time, so its unsigned subtraction never wraps, whatever
\* the interleaving of the callbacks of the domain's CPUs (timestamp taken
\* before update_lock), limits() and the deferred work (which read the clock
\* under the lock).
C39_TrackCyclesNeverBackwards == ~wg_policy.cyc_wrapped

\* The step is the locked part of a callback that carries the frame boost
\* flag.
FrameBoostCallbackStep ==
    \E t \in {"cb0", "cb1"} :
        /\ pc[t].at = "locked"
        /\ pc'[t].at = "idle"
        /\ SCHED_CPUFREQ_DEF_FRAMEBOOST \in pc[t].flags

\* What holds: the subtraction wraps in no step but that of a callback with
\* the frame boost flag, which the rate limit does not hold back.
C39_BackwardsOnlyUnderFrameBoost ==
    [][(wg_policy'.cyc_wrapped /\ ~wg_policy.cyc_wrapped)
           => FrameBoostCallbackStep]_vars

\* A callback that began before the last commit was let through by the frame
\* boost flag and accounted cycles up to its own earlier timestamp.
C39_StaleTimestampTracked ==
    /\ wg_policy.cyc_wrapped
    /\ last.op = "cb"
    /\ last.out.committed
    /\ wg_policy.last_freq_update_time < now

\* Without the flag, a callback whose timestamp is behind the last commit
\* ran under the lock and committed nothing.
C39_StaleCallbackHeldBack ==
    /\ ~wg_policy.cyc_wrapped
    /\ last.op = "cb"
    /\ ~last.out.committed
    /\ wg_policy.last_freq_update_time = now
    /\ wg_policy.last_cyc_update_time = now

\* policy->cur lies within the policy limits.
HardwareInside(pol) == pol.min <= pol.cur /\ pol.cur <= pol.max

\* C40: when limits() returns on a fast-switch domain, the hardware
\* frequency lies within the new [policy->min, policy->max], also when the
\* previous commit is more recent than the up or down rate delay.
C40_LimitsLeavesHardwareInside ==
    [][LimitsFastReturns => HardwareInside(policy')]_vars

\* The rate limit holds back the frequency limits() resolved.
LimitsHeldBack(f) ==
    /\ f # wg_policy.next_freq
    /\ ~DelayElapsed(wg_policy, f, now)
    /\ ~FrameBoostFlag(wg_policy)

\* What holds: limits() on a fast-switch domain returns with the hardware
\* within the new limits unless the rate limit holds the resolved frequency
\* back; then the hardware stays where it was and limits_changed is set for
\* the next callback.
C40_InsideUnlessRateLimited ==
    [][LimitsFastReturns =>
          IF LimitsHeldBack(cpufreq_driver_resolve_freq(policy, policy.cur))
          THEN /\ policy'.cur = policy.cur
               /\ wg_policy'.limits_changed
          ELSE HardwareInside(policy')]_vars

\* limits() has returned on a fast-switch domain whose hardware runs below
\* the new minimum: the commit before it was inside the up delay.
C40_OutsideAfterLimits ==
    /\ last.op = "limits"
    /\ policy.fast_switch_enabled
    /\ ~last.out.committed
    /\ policy.cur < policy.min
    /\ wg_policy.limits_changed
    /\ now - wg_policy.last_freq_update_time < wg_policy.up_rate_delay_ns

\* limits() has returned with the hardware brought inside the new limits
\* although the commit before it was inside the up delay: the lowering was
\* not held back by the down delay of 0.
C40_InsideAfterLimits ==
    /\ last.op = "limits"
    /\ policy.fast_switch_enabled
    /\ last.out.committed
    /\ HardwareInside(policy)
    /\ wg_policy.up_rate_delay_ns > 0

============================================================================
